---- MODULE Spec2Model ----
(***************************************************************************)
(* EmberCRM: contact identity resolution (find-or-create, duplicate        *)
(* detection, merge), heat scoring and agent assignment, modelled as a     *)
(* state machine over the rows of the relational store.                    *)
(*                                                                         *)
(* Rows are records, a table is a sequence of rows and a row's id is its   *)
(* index in the table (ids are fresh random uuids in the code, so an       *)
(* insert always appends a row with a new id; id 0 stands for SQL NULL in  *)
(* an id column).  Text is a sequence of one-character strings; the empty  *)
(* sequence stands both for NULL and for "", which the code never tells    *)
(* apart (every test of a text column is a truthiness test or an equality  *)
(* with a truthy value).                                                   *)
(***************************************************************************)
EXTENDS Integers, Sequences, FiniteSets, TLC

VARIABLES
    contactTable,          \* contact rows
    contactSourceTable,    \* contact_source rows
    conversationTable,     \* conversation rows
    agentAssignmentTable,  \* agent_assignment rows
    formSubmissionTable,   \* form_submission rows
    contactNoteTable,      \* contact_note rows
    contactAgreementTable, \* contact_agreement rows
    voiceCallTable,        \* voice_call rows
    conversationMessageTable, \* conversation_message rows
    formTable,             \* form rows
    agentTable,            \* agent rows
    now,                   \* the wall clock, in half days
    last,                  \* the last call: its name, arguments and outcome
    requests               \* the HTTP requests and sends in flight

vars == << contactTable, contactSourceTable, conversationTable,
           agentAssignmentTable, formSubmissionTable, contactNoteTable,
           contactAgreementTable, voiceCallTable, conversationMessageTable,
           formTable, agentTable, now, last, requests >>

----------------------------------------------------------------------------
(* Bounds of the model *)

MaxContacts == 2         \* rows of contactTable
MaxInteractions == 2     \* cap on an interactionCount
MaxLifetimeValue == 200000 \* cap on a contact's lifetimeValue
MaxSources == 2          \* rows of contactSourceTable
MaxConversations == 1    \* rows of conversationTable
MaxAssignments == 1      \* rows of agentAssignmentTable
MaxMessages == 1         \* rows of conversationMessageTable
MaxNotes == 1            \* rows of contactNoteTable
MaxSubmissions == 1      \* rows of formSubmissionTable
MaxNow == 2              \* ticks of the clock

----------------------------------------------------------------------------
(* Values *)

NULL == << >>
NoId == 0
Null == -1

ContactStatus == [active |-> "active", inactive |-> "inactive",
                  blocked |-> "blocked", merged |-> "merged"]

Min(a, b) == IF a <= b THEN a ELSE b
Max(a, b) == IF a >= b THEN a ELSE b

RECURSIVE SeqOfSet(_)
\* the elements of a set of integers in increasing order
SeqOfSet(S) ==
    IF S = {} THEN << >>
    ELSE LET m == CHOOSE x \in S : \A y \in S : x <= y
         IN  << m >> \o SeqOfSet(S \ {m})

----------------------------------------------------------------------------
(* Similarity engine: merger.ts 30-98 *)

Digits == {"0", "1", "2", "3", "4", "5", "6", "7", "8", "9"}

StartsWith(s, p) == Len(s) >= Len(p) /\ SubSeq(s, 1, Len(p)) = p

Slice(s, n) == SubSeq(s, n + 1, Len(s))

\* String.prototype.slice(-n)
SliceLast(s, n) == IF Len(s) <= n THEN s ELSE SubSeq(s, Len(s) - n + 1, Len(s))

\* the country code 1 removed whatever the length
normalizePhoneNumberAnyLength(phone) ==
    LET stripped == SelectSeq(phone, LAMBDA c : c \in Digits)
        noUs == IF StartsWith(stripped, << "1" >>)
                THEN Slice(stripped, 1) ELSE stripped
    IN  IF StartsWith(noUs, << "5", "2" >>) /\ Len(noUs) = 12
        THEN Slice(noUs, 2) ELSE noUs

normalizePhoneNumber(phone) ==
    LET stripped == SelectSeq(phone, LAMBDA c : c \in Digits)
        noUs == IF StartsWith(stripped, << "1" >>) /\ Len(stripped) = 11
                THEN Slice(stripped, 1) ELSE stripped
    IN  IF StartsWith(noUs, << "5", "2" >>) /\ Len(noUs) = 12
        THEN Slice(noUs, 2) ELSE noUs

LowerChar(c) ==
    CASE c = "A" -> "a" [] c = "B" -> "b" [] c = "D" -> "d"
      [] c = "R" -> "r" [] OTHER -> c

\* the code units a code unit lowercases to: U+0130 (capital I with dot
\* above) becomes i followed by the combining dot U+0307
LowerUnits(c) ==
    IF c = "U+0130" THEN << "i", "U+0307" >> ELSE << LowerChar(c) >>

RECURSIVE toLowerCase(_)
toLowerCase(s) ==
    IF s = << >> THEN << >> ELSE LowerUnits(Head(s)) \o toLowerCase(Tail(s))

RECURSIVE LevenshteinRow(_, _, _, _)
\* row i of the matrix from row i - 1 (previous), filled from column 0 on;
\* row is the part filled so far and char is str1[i]
LevenshteinRow(previous, char, str2, row) ==
    IF Len(row) = Len(str2) + 1 THEN row
    ELSE LET j == Len(row)
             cost == IF char = str2[j] THEN 0 ELSE 1
         IN  LevenshteinRow(previous, char, str2,
                Append(row, Min(Min(previous[j + 1] + 1, row[j] + 1),
                                previous[j] + cost)))

RECURSIVE LevenshteinRows(_, _, _, _)
\* the last row of the matrix, given row i - 1
LevenshteinRows(str1, str2, i, previous) ==
    IF i > Len(str1) THEN previous
    ELSE LevenshteinRows(str1, str2, i + 1,
            LevenshteinRow(previous, str1[i], str2, << i >>))

levenshteinDistance(str1, str2) ==
    LevenshteinRows(str1, str2, 1, [j \in 1..(Len(str2) + 1) |-> j - 1])[Len(str2) + 1]

\* similarities are fixed-point numbers: SimScale stands for 1
SimScale == 420

calculateSimilarity(str1, str2) ==
    LET distance == levenshteinDistance(toLowerCase(str1), toLowerCase(str2))
        maxLength == Max(Len(str1), Len(str2))
    IN  IF maxLength = 0 THEN SimScale
        ELSE SimScale - (distance * SimScale) \div maxLength

----------------------------------------------------------------------------
(* Duplicate detection: merger.ts 103-223 *)

\* confidences are fixed-point numbers: Conf(100) stands for 1.0
Conf(pct) == pct * 2 * SimScale

Truthy(text) == text # NULL

\* String.prototype.split("@")[0]
RECURSIVE LocalPart(_)
LocalPart(email) ==
    IF email = << >> \/ Head(email) = "@" THEN << >>
    ELSE << Head(email) >> \o LocalPart(Tail(email))

\* findMany without ORDER BY: the ids of the rows that satisfy the filter, in
\* the order in which the store scans them; heap is that order, a permutation
\* of the ids the store may hold, chosen anew for every call
FindMany(table, heap, Filter(_)) ==
    SelectSeq(heap, LAMBDA i : i \in DOMAIN table /\ Filter(table[i]))

\* findFirst: the first row of the scan that satisfies the filter, or NoId
FindFirst(table, heap, Filter(_)) ==
    LET found == FindMany(table, heap, Filter)
    IN  IF found = << >> THEN NoId ELSE Head(found)

HasCandidate(candidates, id) == \E k \in DOMAIN candidates : candidates[k].id = id

RECURSIVE EmailPass(_, _, _)
EmailPass(table, ids, candidates) ==
    IF ids = << >> THEN candidates
    ELSE EmailPass(table, Tail(ids),
            Append(candidates, [id |-> Head(ids), confidence |-> Conf(100),
                                matchReason |-> "Exact email match"]))

RECURSIVE PhonePass(_, _, _, _)
PhonePass(table, ids, normalizedPhone, candidates) ==
    IF ids = << >> THEN candidates
    ELSE LET match == table[Head(ids)]
             hit == /\ Truthy(match.phone)
                    /\ normalizePhoneNumber(match.phone) = normalizedPhone
                    /\ ~HasCandidate(candidates, Head(ids))
         IN  PhonePass(table, Tail(ids), normalizedPhone,
                IF hit
                THEN Append(candidates,
                        [id |-> Head(ids), confidence |-> Conf(95),
                         matchReason |-> "Exact phone match (normalized)"])
                ELSE candidates)

NameConfidence(contact, match, avgTwice) ==
    LET base == avgTwice * 70
        withEmail ==
            IF /\ Truthy(contact.email) /\ Truthy(match.email)
               /\ LocalPart(contact.email) = LocalPart(match.email)
            THEN Min(base + Conf(15), Conf(95)) ELSE base
        phoneDigits == normalizePhoneNumber(contact.phone)
        matchPhoneDigits == normalizePhoneNumber(match.phone)
    IN  IF /\ Truthy(contact.phone) /\ Truthy(match.phone)
           /\ SliceLast(phoneDigits, 4) = SliceLast(matchPhoneDigits, 4)
           /\ Len(phoneDigits) >= 4
        THEN Min(withEmail + Conf(10), Conf(95)) ELSE withEmail

RECURSIVE NamePass(_, _, _, _, _)
NamePass(table, ids, contact, threshold, candidates) ==
    IF ids = << >> THEN candidates
    ELSE LET match == table[Head(ids)]
             firstNameSimilarity == calculateSimilarity(contact.firstName, match.firstName)
             lastNameSimilarity == calculateSimilarity(contact.lastName, match.lastName)
             avgTwice == firstNameSimilarity + lastNameSimilarity
             hit == /\ ~HasCandidate(candidates, Head(ids))
                    /\ avgTwice * 100 >= threshold * 2 * SimScale
         IN  NamePass(table, Tail(ids), contact, threshold,
                IF hit
                THEN Append(candidates,
                        [id |-> Head(ids),
                         confidence |-> NameConfidence(contact, match, avgTwice),
                         matchReason |-> "Fuzzy name match"])
                ELSE candidates)

RECURSIVE InsertSorted(_, _)
\* Array.prototype.sort is stable: an element goes after its equals
InsertSorted(sorted, c) ==
    IF sorted = << >> THEN << c >>
    ELSE IF Head(sorted).confidence >= c.confidence
         THEN << Head(sorted) >> \o InsertSorted(Tail(sorted), c)
         ELSE << c >> \o sorted

RECURSIVE SortByConfidence(_)
SortByConfidence(candidates) ==
    IF candidates = << >> THEN << >>
    ELSE InsertSorted(SortByConfidence(SubSeq(candidates, 1, Len(candidates) - 1)),
                      candidates[Len(candidates)])

\* the candidates as the passes found them, without the final sort
detectDuplicateContactsUnsorted(table, heap, organizationId, contact, threshold) ==
    LET activeOfOrg == FindMany(table, heap, LAMBDA r :
                           r.organizationId = organizationId
                           /\ r.status = ContactStatus.active)
        emailMatches == FindMany(table, heap, LAMBDA r :
                           r.organizationId = organizationId
                           /\ r.email = contact.email
                           /\ r.status = ContactStatus.active)
        pass1 == IF Truthy(contact.email)
                 THEN EmailPass(table, emailMatches, << >>) ELSE << >>
        pass2 == IF Truthy(contact.phone)
                 THEN PhonePass(table, activeOfOrg,
                                normalizePhoneNumber(contact.phone), pass1)
                 ELSE pass1
        pass3 == IF Truthy(contact.firstName) /\ Truthy(contact.lastName)
                 THEN NamePass(table, activeOfOrg, contact, threshold, pass2)
                 ELSE pass2
    IN  pass3

\* threshold is in hundredths (70 for 0.7)
detectDuplicateContacts(table, heap, organizationId, contact, threshold) ==
    LET activeOfOrg == FindMany(table, heap, LAMBDA r :
                           r.organizationId = organizationId
                           /\ r.status = ContactStatus.active)
        emailMatches == FindMany(table, heap, LAMBDA r :
                           r.organizationId = organizationId
                           /\ r.email = contact.email
                           /\ r.status = ContactStatus.active)
        pass1 == IF Truthy(contact.email)
                 THEN EmailPass(table, emailMatches, << >>) ELSE << >>
        pass2 == IF Truthy(contact.phone)
                 THEN PhonePass(table, activeOfOrg,
                                normalizePhoneNumber(contact.phone), pass1)
                 ELSE pass1
        pass3 == IF Truthy(contact.firstName) /\ Truthy(contact.lastName)
                 THEN NamePass(table, activeOfOrg, contact, threshold, pass2)
                 ELSE pass2
    IN  SortByConfidence(pass3)

----------------------------------------------------------------------------
(* Heat scorer: scoring.ts 18-132.  The clock counts half days. *)

HalfDaysPerDay == 2

RecencyScore(contact, t) ==
    IF contact.lastInteractionAt = Null THEN 0
    ELSE LET daysSinceLastInteraction ==
                 (t - contact.lastInteractionAt) \div HalfDaysPerDay
         IN  IF daysSinceLastInteraction = 0 THEN 30
             ELSE IF daysSinceLastInteraction <= 1 THEN 28
             ELSE IF daysSinceLastInteraction <= 3 THEN 25
             ELSE IF daysSinceLastInteraction <= 7 THEN 20
             ELSE IF daysSinceLastInteraction <= 14 THEN 15
             ELSE IF daysSinceLastInteraction <= 30 THEN 10
             ELSE IF daysSinceLastInteraction <= 60 THEN 5
             ELSE 0

\* a frequency score that gives points for no interaction at all
FrequencyScoreFromZero(contact) ==
    LET recentInteractionCount == contact.interactionCount
    IN  IF recentInteractionCount >= 16 THEN 30
        ELSE IF recentInteractionCount >= 6 THEN 20
        ELSE 10

FrequencyScore(contact) ==
    LET recentInteractionCount == contact.interactionCount
    IN  IF recentInteractionCount >= 16 THEN 30
        ELSE IF recentInteractionCount >= 6 THEN 20
        ELSE IF recentInteractionCount >= 1 THEN 10
        ELSE 0

ValueScore(contact) ==
    LET lifetimeValue == IF contact.lifetimeValue = Null THEN 0
                         ELSE contact.lifetimeValue
    IN  IF lifetimeValue >= 100000 THEN 20
        ELSE IF lifetimeValue >= 50000 THEN 15
        ELSE IF lifetimeValue >= 10000 THEN 10
        ELSE IF lifetimeValue >= 1000 THEN 5
        ELSE 0

EngagementScore(contact) ==
    \* contact.averageResponseTime || null: an average of 0 counts as absent
    LET avgResponseTime == IF contact.averageResponseTime = 0 THEN Null
                           ELSE contact.averageResponseTime
    IN  IF avgResponseTime = Null THEN 0
        ELSE IF avgResponseTime < 300 THEN 20
        ELSE IF avgResponseTime < 1800 THEN 15
        ELSE IF avgResponseTime < 7200 THEN 10
        ELSE IF avgResponseTime < 86400 THEN 5
        ELSE 0

\* the score of an existing contact row (the code throws when the row is absent)
calculateHeatScore(contact, t) ==
    LET score == RecencyScore(contact, t) + FrequencyScore(contact)
                 + ValueScore(contact) + EngagementScore(contact)
    IN  Min(Max(score, 0), 100)

\* batchRecalculateHeatScores: the table after the loop over the active
\* contacts of the organization, read at the start
RECURSIVE BatchLoop(_, _, _)
BatchLoop(table, ids, t) ==
    IF ids = << >> THEN table
    ELSE BatchLoop([table EXCEPT ![Head(ids)].heatScore =
                        calculateHeatScore(table[Head(ids)], t)],
                   Tail(ids), t)

\* recalculateHeatScore on the contact table: the table after the update
recalculateHeatScore(table, contactId, t) ==
    [table EXCEPT ![contactId].heatScore = calculateHeatScore(table[contactId], t)]

----------------------------------------------------------------------------
(* The store.  An operation is an operator from a store (a record of       *)
(* tables) to its outcome; an action applies it to the variables.          *)

DB == [contact |-> contactTable, source |-> contactSourceTable,
       conversation |-> conversationTable, assignment |-> agentAssignmentTable,
       submission |-> formSubmissionTable, note |-> contactNoteTable,
       agreement |-> contactAgreementTable, voiceCall |-> voiceCallTable,
       message |-> conversationMessageTable, form |-> formTable]

SetDB(db) ==
    /\ contactTable' = db.contact
    /\ contactSourceTable' = db.source
    /\ conversationTable' = db.conversation
    /\ agentAssignmentTable' = db.assignment
    /\ formSubmissionTable' = db.submission
    /\ contactNoteTable' = db.note
    /\ contactAgreementTable' = db.agreement
    /\ voiceCallTable' = db.voiceCall
    /\ conversationMessageTable' = db.message
    /\ formTable' = db.form

\* a transaction whose writes stay when the callback throws
TransactionWithoutRollback(before, after, threw) == after

\* db.transaction(callback): the callback's writes are kept when it returns
\* and undone when it throws
Transaction(before, after, threw) == IF threw THEN before ELSE after

----------------------------------------------------------------------------
(* findOrCreateContact: merger.ts 484-603 *)

NewContact(organizationId, data, t) ==
    [organizationId |-> organizationId,
     firstName |-> data.firstName, lastName |-> data.lastName,
     email |-> data.email, phone |-> data.phone,
     status |-> ContactStatus.active, mergedWithId |-> NoId,
     heatScore |-> 0, interactionCount |-> 1, lifetimeValue |-> 0,
     lastInteractionAt |-> t, averageResponseTime |-> Null]

NewSource(contactId, data) ==
    [contactId |-> contactId, sourceType |-> data.sourceType,
     sourceIdentifier |-> data.sourceIdentifier, interactionCount |-> 1]

\* a lookup that never searches by email
FindExistingByPhoneOnly(table, heap, organizationId, data) ==
    IF Truthy(data.phone)
    THEN FindFirst(table, heap, LAMBDA r :
             r.organizationId = organizationId
             /\ r.phone = data.phone
             /\ r.status = ContactStatus.active)
    ELSE NoId

\* a lookup that searches by phone before it searches by email
FindExistingPhoneFirst(table, heap, organizationId, data) ==
    LET byPhone == FindExistingByPhoneOnly(table, heap, organizationId, data)
    IN  IF byPhone = NoId /\ Truthy(data.email)
        THEN FindFirst(table, heap, LAMBDA r :
                 r.organizationId = organizationId
                 /\ r.email = data.email
                 /\ r.status = ContactStatus.active)
        ELSE byPhone

\* a lookup that finds contacts of every status
FindExistingAnyStatus(table, heap, organizationId, data) ==
    LET byEmail == IF Truthy(data.email)
                   THEN FindFirst(table, heap, LAMBDA r :
                            r.organizationId = organizationId
                            /\ r.email = data.email)
                   ELSE NoId
    IN  IF byEmail = NoId /\ Truthy(data.phone)
        THEN FindFirst(table, heap, LAMBDA r :
                 r.organizationId = organizationId
                 /\ r.phone = data.phone)
        ELSE byEmail

\* the contact the lookup resolves to, or NoId: by email first, then by phone
FindExisting(table, heap, organizationId, data) ==
    LET byEmail == IF Truthy(data.email)
                   THEN FindFirst(table, heap, LAMBDA r :
                            r.organizationId = organizationId
                            /\ r.email = data.email
                            /\ r.status = ContactStatus.active)
                   ELSE NoId
    IN  IF byEmail = NoId /\ Truthy(data.phone)
        THEN FindFirst(table, heap, LAMBDA r :
                 r.organizationId = organizationId
                 /\ r.phone = data.phone
                 /\ r.status = ContactStatus.active)
        ELSE byEmail

\* the source row of the contact that the upsert updates, or NoId; the scan
\* of contact_source is taken in table order
FindSource(sources, contactId, data) ==
    LET found == {i \in DOMAIN sources :
                     /\ sources[i].contactId = contactId
                     /\ sources[i].sourceType = data.sourceType
                     /\ (data.sourceIdentifier # NoId
                           => sources[i].sourceIdentifier = data.sourceIdentifier)}
    IN  IF found = {} THEN NoId ELSE CHOOSE i \in found : \A j \in found : i <= j

\* the outcome of findOrCreateContact: the store after the commit, the id of
\* the contact returned and whether it was created
findOrCreateContact(db, heap, organizationId, data, t) ==
    LET existing == FindExisting(db.contact, heap, organizationId, data)
        existingSource == FindSource(db.source, existing, data)
        touched == [db.contact EXCEPT
                       ![existing].lastInteractionAt = t,
                       ![existing].interactionCount = @ + 1]
    IN  IF existing # NoId
        THEN [db |-> [db EXCEPT
                        !.contact = touched,
                        !.source = IF existingSource = NoId
                                   THEN Append(@, NewSource(existing, data))
                                   ELSE [@ EXCEPT ![existingSource].interactionCount = @ + 1]],
              id |-> existing, created |-> FALSE]
        ELSE [db |-> [db EXCEPT
                        !.contact = Append(@, NewContact(organizationId, data, t)),
                        !.source = Append(@, NewSource(Len(db.contact) + 1, data))],
              id |-> Len(db.contact) + 1, created |-> TRUE]

----------------------------------------------------------------------------
(* mergeContacts: merger.ts 278-413 *)

\* the first element of the sequence of ids whose row has the field set
FirstWith(table, ids, field) ==
    LET withField == SelectSeq(ids, LAMBDA i : Truthy(table[i][field]))
    IN  IF withField = << >> THEN NULL ELSE table[Head(withField)][field]

OrZero(n) == IF n = Null THEN 0 ELSE n

RECURSIVE SumOver(_, _, _)
SumOver(table, ids, field) ==
    IF ids = << >> THEN 0
    ELSE OrZero(table[Head(ids)][field]) + SumOver(table, Tail(ids), field)

\* merged fields whose sums leave out the primary
MergedFieldsOfDuplicates(table, primaryId, duplicates) ==
    LET primary == table[primaryId]
    IN  [phone |-> IF Truthy(primary.phone) THEN primary.phone
                   ELSE FirstWith(table, duplicates, "phone"),
         email |-> IF Truthy(primary.email) THEN primary.email
                   ELSE FirstWith(table, duplicates, "email"),
         lifetimeValue |-> SumOver(table, duplicates, "lifetimeValue"),
         interactionCount |-> SumOver(table, duplicates, "interactionCount")]

\* step 2: the merged fields of the primary
MergedFields(table, primaryId, duplicates) ==
    LET primary == table[primaryId]
    IN  [phone |-> IF Truthy(primary.phone) THEN primary.phone
                   ELSE FirstWith(table, duplicates, "phone"),
         email |-> IF Truthy(primary.email) THEN primary.email
                   ELSE FirstWith(table, duplicates, "email"),
         lifetimeValue |-> OrZero(primary.lifetimeValue)
                           + SumOver(table, duplicates, "lifetimeValue"),
         interactionCount |-> primary.interactionCount
                           + SumOver(table, duplicates, "interactionCount")]

\* UPDATE t SET contact_id = primaryId WHERE contact_id IN duplicateIds
Repoint(table, primaryId, duplicateIds) ==
    [i \in DOMAIN table |->
        IF table[i].contactId \in duplicateIds
        THEN [table[i] EXCEPT !.contactId = primaryId] ELSE table[i]]

\* step 5: UPDATE contact SET status = merged, merged_with_id = primaryId
\*         WHERE id IN duplicateIds
MarkMerged(table, primaryId, duplicateIds) ==
    [i \in DOMAIN table |->
        IF i \in duplicateIds
        THEN [table[i] EXCEPT !.status = ContactStatus.merged,
                              !.mergedWithId = primaryId]
        ELSE table[i]]

\* the writes of the transaction, in the order of the code
MergeStatements == 9

MergeStatement(db, k, primaryId, duplicateIds, merged) ==
    CASE k = 1 -> [db EXCEPT !.contact =
                      [@ EXCEPT ![primaryId].phone = merged.phone,
                                ![primaryId].email = merged.email,
                                ![primaryId].lifetimeValue = merged.lifetimeValue,
                                ![primaryId].interactionCount = merged.interactionCount]]
      [] k = 2 -> [db EXCEPT !.conversation = Repoint(@, primaryId, duplicateIds)]
      [] k = 3 -> [db EXCEPT !.agreement = Repoint(@, primaryId, duplicateIds)]
      [] k = 4 -> [db EXCEPT !.note = Repoint(@, primaryId, duplicateIds)]
      [] k = 5 -> [db EXCEPT !.source = Repoint(@, primaryId, duplicateIds)]
      [] k = 6 -> [db EXCEPT !.assignment = Repoint(@, primaryId, duplicateIds)]
      [] k = 7 -> [db EXCEPT !.submission = Repoint(@, primaryId, duplicateIds)]
      [] k = 8 -> [db EXCEPT !.voiceCall = Repoint(@, primaryId, duplicateIds)]
      [] k = 9 -> [db EXCEPT !.contact = MarkMerged(@, primaryId, duplicateIds)]

RECURSIVE MergeAfter(_, _, _, _, _)
\* the store after the first n writes
MergeAfter(db, n, primaryId, duplicateIds, merged) ==
    IF n = 0 THEN db
    ELSE MergeStatement(MergeAfter(db, n - 1, primaryId, duplicateIds, merged),
                        n, primaryId, duplicateIds, merged)

\* the rows of duplicateIds that exist, in scan order
FoundDuplicates(table, heap, duplicateIds) ==
    SelectSeq(heap, LAMBDA i : i \in DOMAIN table /\ i \in duplicateIds)

\* a merge that does not require a duplicate to be found
mergeContactsUnchecked(db, heap, primaryId, duplicateIds, failAt, t) ==
    LET duplicates == FoundDuplicates(db.contact, heap, duplicateIds)
        merged == MergedFields(db.contact, primaryId, duplicates)
        written == MergeAfter(db, MergeStatements, primaryId, duplicateIds, merged)
    IN  IF primaryId \notin DOMAIN db.contact
        THEN [db |-> db, ok |-> FALSE, error |-> "Primary contact not found"]
        ELSE [db |-> [written EXCEPT
                        !.contact = recalculateHeatScore(@, primaryId, t)],
              ok |-> TRUE, error |-> "none"]

\* failAt = 0: no statement fails; failAt = k in 1..MergeStatements: write k
\* throws; failAt = MergeStatements + 1: the heat recalculation that follows
\* the commit throws
mergeContacts(db, heap, primaryId, duplicateIds, failAt, t) ==
    LET duplicates == FoundDuplicates(db.contact, heap, duplicateIds)
        merged == MergedFields(db.contact, primaryId, duplicates)
        threw == failAt \in 1..MergeStatements
        written == MergeAfter(db, IF threw THEN failAt - 1 ELSE MergeStatements,
                              primaryId, duplicateIds, merged)
        committed == Transaction(db, written, threw)
    IN  IF primaryId \notin DOMAIN db.contact
        THEN [db |-> db, ok |-> FALSE, error |-> "Primary contact not found"]
        ELSE IF duplicates = << >>
        THEN [db |-> db, ok |-> FALSE, error |-> "No duplicate contacts found"]
        ELSE IF threw
        THEN [db |-> committed, ok |-> FALSE, error |-> "statement failed"]
        ELSE IF failAt = MergeStatements + 1
        THEN [db |-> committed, ok |-> FALSE, error |-> "recalculation failed"]
        ELSE [db |-> [committed EXCEPT
                        !.contact = recalculateHeatScore(@, primaryId, t)],
              ok |-> TRUE, error |-> "none"]

----------------------------------------------------------------------------
(* autoMergeHighConfidenceDuplicates: merger.ts 419-455 *)

CandidateIds(candidates) == {candidates[k].id : k \in DOMAIN candidates}

\* threshold passed to detectDuplicateContacts, and the confidence a
\* candidate needs to be merged, in hundredths
AutoMergeThreshold == 90
AutoMergeConfidence == 95

\* the merge that is made to fail: of which contact, and where (as failAt of
\* mergeContacts); no merge fails when the contact is NoId
NoFault == [id |-> NoId, failAt |-> 0]

RECURSIVE AutoMergeLoop(_, _, _, _, _, _, _, _)
\* the loop over the contacts read at the start (snapshot holds their rows as
\* read then); the outcome is the store and the merge count after the loop
AutoMergeLoop(db, heap, organizationId, ids, snapshot, mergeCount, fault, t) ==
    IF ids = << >> THEN [db |-> db, mergeCount |-> mergeCount]
    ELSE LET contact == snapshot[Head(ids)]
             duplicates == detectDuplicateContacts(db.contact, heap,
                               organizationId, contact, AutoMergeThreshold)
             highConfidenceDupes ==
                 SelectSeq(duplicates,
                     LAMBDA d : d.confidence >= Conf(AutoMergeConfidence))
             merge == mergeContacts(db, heap, Head(ids),
                                    CandidateIds(highConfidenceDupes),
                                    IF Head(ids) = fault.id THEN fault.failAt
                                    ELSE 0, t)
         IN  IF highConfidenceDupes = << >>
             THEN AutoMergeLoop(db, heap, organizationId, Tail(ids), snapshot,
                                mergeCount, fault, t)
             ELSE AutoMergeLoop(merge.db, heap, organizationId, Tail(ids),
                                snapshot,
                                IF merge.ok
                                THEN mergeCount + Len(highConfidenceDupes)
                                ELSE mergeCount, fault, t)

autoMergeHighConfidenceDuplicates(db, heap, organizationId, fault, t) ==
    LET contacts == FindMany(db.contact, heap, LAMBDA r :
                        r.organizationId = organizationId
                        /\ r.status = ContactStatus.active)
    IN  AutoMergeLoop(db, heap, organizationId, contacts, db.contact, 0,
                      fault, t)

----------------------------------------------------------------------------
(* Agent router: manager.ts 112-207 *)

IsOpen(assignment) == assignment.unassignedAt = Null

OpenAssignments(assignments, conversationId) ==
    {i \in DOMAIN assignments :
        assignments[i].conversationId = conversationId /\ IsOpen(assignments[i])}

\* findFirst over agent_assignment, scanned in table order
FirstOpenAssignment(assignments, conversationId) ==
    LET open == OpenAssignments(assignments, conversationId)
    IN  IF open = {} THEN NoId ELSE CHOOSE i \in open : \A j \in open : i <= j

getCurrentAssignment(assignments, conversationId) ==
    FirstOpenAssignment(assignments, conversationId)

NewAssignment(conversationId, agentId, contactId) ==
    [conversationId |-> conversationId, agentId |-> agentId,
     contactId |-> contactId, unassignedAt |-> Null,
     reasonForUnassignment |-> "none",
     messagesHandled |-> 0, creditsUsed |-> 0]

\* the foreign keys of agent_assignment (tables.ts 1158-1166), checked
\* against the rows the inserting connection can see
AssignmentKeysExist(conversations, agents, contacts, conversationId, agentId, contactId) ==
    /\ conversationId \in DOMAIN conversations
    /\ agentId \in DOMAIN agents
    /\ contactId \in DOMAIN contacts

\* an assignment that leaves the open assignment of the conversation open
assignAgentToConversationKeepingOpen(db, conversations, agents, conversationId, agentId, contactId, t) ==
    LET inserted == Append(db.assignment,
                           NewAssignment(conversationId, agentId, contactId))
        threw == ~AssignmentKeysExist(conversations, agents, db.contact,
                                      conversationId, agentId, contactId)
    IN  [db |-> Transaction(db, [db EXCEPT !.assignment = inserted], threw),
         ok |-> ~threw,
         id |-> IF threw THEN NoId ELSE Len(inserted)]

\* the outcome of assignAgentToConversation on the store db, where
\* conversations are the conversation rows its connection sees
assignAgentToConversation(db, conversations, agents, conversationId, agentId, contactId, t) ==
    LET existingAssignment == FirstOpenAssignment(db.assignment, conversationId)
        closed == IF existingAssignment = NoId THEN db.assignment
                  ELSE [db.assignment EXCEPT
                          ![existingAssignment].unassignedAt = t,
                          ![existingAssignment].reasonForUnassignment =
                              "Reassigned to different agent"]
        inserted == Append(closed, NewAssignment(conversationId, agentId, contactId))
        threw == ~AssignmentKeysExist(conversations, agents, db.contact,
                                      conversationId, agentId, contactId)
    IN  [db |-> Transaction(db, [db EXCEPT !.assignment = inserted], threw),
         ok |-> ~threw,
         id |-> IF threw THEN NoId ELSE Len(inserted)]

\* an unassignAgent whose UPDATE leaves out unassigned_at IS NULL
unassignAgentAlsoClosed(db, assignmentId, reason, t) ==
    IF assignmentId \in DOMAIN db.assignment
    THEN [db |-> [db EXCEPT !.assignment =
                    [@ EXCEPT ![assignmentId].unassignedAt = t,
                              ![assignmentId].reasonForUnassignment =
                                  IF reason = "none"
                                  THEN "Manual unassignment" ELSE reason]],
          ok |-> TRUE]
    ELSE [db |-> db, ok |-> FALSE]

\* the outcome of unassignAgent: UPDATE ... WHERE id = assignmentId AND
\* unassigned_at IS NULL RETURNING *
unassignAgent(db, assignmentId, reason, t) ==
    LET hit == assignmentId \in DOMAIN db.assignment
               /\ IsOpen(db.assignment[assignmentId])
    IN  IF hit
        THEN [db |-> [db EXCEPT !.assignment =
                        [@ EXCEPT ![assignmentId].unassignedAt = t,
                                  ![assignmentId].reasonForUnassignment =
                                      IF reason = "none"
                                      THEN "Manual unassignment" ELSE reason]],
              ok |-> TRUE]
        ELSE [db |-> db, ok |-> FALSE]

----------------------------------------------------------------------------
(* selectBestAgent: manager.ts 29-107 *)

AgentScore(agent, criteria) ==
    (IF criteria.channel \in agent.assignToChannels THEN 30 ELSE 0)
  + (IF criteria.campaign # "none" /\ criteria.campaign \in agent.assignToCampaigns
     THEN 25 ELSE 0)
  + (IF \/ agent.type = "qualifier" /\ criteria.contactId = NoId
        \/ agent.type = "sales" /\ criteria.intent = "purchase"
        \/ agent.type = "support" /\ criteria.intent = "help"
        \/ agent.type = "scheduler" /\ criteria.intent = "schedule"
     THEN 20 ELSE 0)
  + (IF criteria.channel = "calls" /\ agent.voiceProvider # "none"
     THEN 15 ELSE 0)
  + 10

\* agents.map: the agents found, each with its score
ScoredAgents(agents, ids, criteria) ==
    [k \in DOMAIN ids |->
        [agent |-> ids[k], score |-> AgentScore(agents[ids[k]], criteria)]]

RECURSIVE InsertByScore(_, _)
\* Array.prototype.sort is stable: an element goes after its equals
InsertByScore(sorted, a) ==
    IF sorted = << >> THEN << a >>
    ELSE IF Head(sorted).score >= a.score
         THEN << Head(sorted) >> \o InsertByScore(Tail(sorted), a)
         ELSE << a >> \o sorted

RECURSIVE SortByScore(_)
SortByScore(scoredAgents) ==
    IF scoredAgents = << >> THEN << >>
    ELSE InsertByScore(SortByScore(SubSeq(scoredAgents, 1, Len(scoredAgents) - 1)),
                       scoredAgents[Len(scoredAgents)])

\* the first agent found, whatever its score
selectBestAgentUnsorted(agents, heap, organizationId, criteria) ==
    FindFirst(agents, heap,
              LAMBDA a : a.organizationId = organizationId /\ a.active)

\* the id of the agent returned, or NoId for null; heap is the order in which
\* the store returns the agents (the query has no ORDER BY)
selectBestAgent(agents, heap, organizationId, criteria) ==
    LET found == FindMany(agents, heap,
                    LAMBDA a : a.organizationId = organizationId /\ a.active)
    IN  IF found = << >> THEN NoId
        ELSE SortByScore(ScoredAgents(agents, found, criteria))[1].agent

----------------------------------------------------------------------------
(* processFormSubmission: submission.ts 96-258.  The submitted data carries *)
(* the keys firstName, lastName, email and phone (an absent key is NULL);   *)
(* a field of the form is its id and whether it is required.                *)

validateFormSubmission(data, requiredFields) ==
    \A f \in requiredFields : Truthy(data[f])

FormThreshold == 70

NewConversation(organizationId, contactId) ==
    [organizationId |-> organizationId, contactId |-> contactId,
     channel |-> "web", messageCount |-> 0, transferredToHuman |-> FALSE]

\* The callback runs in the transaction tx, but findOrCreateContact,
\* detectDuplicateContacts, mergeContacts and assignAgentToConversation use
\* the handle db: each commits on its own, and sees the rows tx has written
\* only if the two handles share a connection (visible).

\* steps 5 to 8 (submission.ts 165-236), given the outcome of the merge: the
\* submission and the form's counter are written in tx, then the
\* conversation, and the agent is assigned through db
SubmitAndStart(agents, formId, form, visible, t, contactId, merge) ==
    LET saved == [merge.db EXCEPT
                    !.submission = Append(@, [formId |-> formId, contactId |-> contactId]),
                    !.form = [@ EXCEPT ![formId].submissions = @ + 1]]
        starts == form.postSubmitAction = "start_conversation"
                  /\ form.assignToAgentId # NoId
        started == [saved EXCEPT !.conversation =
                       Append(@, NewConversation(form.organizationId, contactId))]
        conversationId == Len(merge.db.conversation) + 1
        assign == assignAgentToConversation(merge.db,
                      IF visible THEN started.conversation ELSE merge.db.conversation,
                      agents, conversationId, form.assignToAgentId, contactId, t)
    IN  IF ~merge.ok
        THEN [db |-> merge.db, ok |-> FALSE, contactId |-> NoId]
        ELSE IF ~starts
        THEN [db |-> saved, ok |-> TRUE, contactId |-> contactId]
        ELSE IF ~assign.ok
        THEN [db |-> Transaction(merge.db, started, TRUE), ok |-> FALSE,
              contactId |-> NoId]
        ELSE [db |-> [started EXCEPT !.assignment = assign.db.assignment],
              ok |-> TRUE, contactId |-> contactId]

\* step 4 (submission.ts 142-163), given the outcome of findOrCreateContact:
\* the duplicates of the submitted data other than the contact are merged
\* into it
MergeDuplicatesOf(agents, heap, formId, form, data, visible, t, found) ==
    LET duplicates == detectDuplicateContacts(found.db.contact, heap,
                          form.organizationId, data, FormThreshold)
        duplicateIds == CandidateIds(duplicates) \ {found.id}
    IN  SubmitAndStart(agents, formId, form, visible, t, found.id,
            IF duplicateIds = {} THEN [db |-> found.db, ok |-> TRUE]
            ELSE mergeContacts(found.db, heap, found.id, duplicateIds, 0, t))

processFormSubmission(db, agents, heap, formId, data, visible, t) ==
    IF formId \notin DOMAIN db.form \/ ~db.form[formId].active
    THEN [db |-> db, ok |-> FALSE, contactId |-> NoId]
    ELSE IF ~validateFormSubmission(data, db.form[formId].requiredFields)
    THEN [db |-> db, ok |-> FALSE, contactId |-> NoId]
    ELSE IF ~Truthy(data.firstName)
    THEN [db |-> db, ok |-> FALSE, contactId |-> NoId]
    ELSE MergeDuplicatesOf(agents, heap, formId, db.form[formId], data, visible, t,
            findOrCreateContact(db, heap, db.form[formId].organizationId,
                [firstName |-> data.firstName, lastName |-> data.lastName,
                 email |-> data.email, phone |-> data.phone,
                 sourceType |-> "form", sourceIdentifier |-> formId], t))

----------------------------------------------------------------------------
(* processMessage: the engine, unnamed/part_002 44-199 *)

TokensUsed == 150

\* a conversation_message row; generatedByAi defaults to false and
\* creditsUsed to 0 (tables.ts 1035-1094)
NewMessage(conversationId, direction, role, action) ==
    [conversationId |-> conversationId, direction |-> direction,
     role |-> role, actionTriggered |-> action,
     generatedByAi |-> FALSE, creditsUsed |-> 0]

\* the message processMessage saves (part_002 92-103)
AssistantMessage(conversationId, actions) ==
    [NewMessage(conversationId, "outbound", "assistant", actions) EXCEPT
        !.generatedByAi = TRUE, !.creditsUsed = TokensUsed]


\* the outcome of getOrAssignAgent: the store and the assignment used; the
\* agents are scanned by ascending id
getOrAssignAgent(db, agents, conversationId, organizationId) ==
    LET existing == FirstOpenAssignment(db.assignment, conversationId)
        conversation == db.conversation[conversationId]
        selectedAgent == selectBestAgent(agents, SeqOfSet(DOMAIN agents),
                             organizationId,
                             [channel |-> conversation.channel,
                              contactId |-> conversation.contactId,
                              intent |-> "none", campaign |-> "none"])
    IN  IF existing # NoId
        THEN [db |-> db, ok |-> TRUE, id |-> existing]
        ELSE IF conversationId \notin DOMAIN db.conversation
        THEN [db |-> db, ok |-> FALSE, id |-> NoId]
        ELSE IF selectedAgent = NoId
        THEN [db |-> db, ok |-> FALSE, id |-> NoId]
        ELSE [db |-> [db EXCEPT !.assignment =
                        Append(@, NewAssignment(conversationId, selectedAgent,
                                                conversation.contactId))],
              ok |-> TRUE, id |-> Len(db.assignment) + 1]

\* the effect of one action handler that completes (unnamed/part_003 and
\* the other handlers)
ExecuteAction(db, action, conversationId, contactId) ==
    CASE action = "transfer-to-human" ->
            [db EXCEPT !.conversation =
                          [@ EXCEPT ![conversationId].transferredToHuman = TRUE],
                       !.message = Append(@, NewMessage(conversationId,
                                              "outbound", "system", << action >>))]
      [] action = "create-note" ->
            [db EXCEPT !.note = Append(@, [contactId |-> contactId])]
      [] OTHER ->
            [db EXCEPT !.message = Append(@, NewMessage(conversationId,
                                              "outbound", "assistant", << action >>))]

RECURSIVE ExecuteFrom(_, _, _, _, _, _)
\* the handlers of the actions from position i on, in decided order; the
\* executor throws for the positions in failed (no handler, invalid
\* parameters or a handler that throws) and their handlers write nothing
ExecuteFrom(db, actions, failed, i, conversationId, contactId) ==
    IF i > Len(actions) THEN db
    ELSE ExecuteFrom(
            IF i \in failed THEN db
            ELSE ExecuteAction(db, actions[i], conversationId, contactId),
            actions, failed, i + 1, conversationId, contactId)

\* an execution that stops at the first action whose executor throws
ExecuteActionsUntilFailure(db, actions, failed, conversationId, contactId) ==
    LET bad == {i \in DOMAIN actions : i \in failed}
        first == IF bad = {} THEN Len(actions) + 1
                 ELSE CHOOSE i \in bad : \A j \in bad : i <= j
    IN  ExecuteFrom(db, SubSeq(actions, 1, first - 1), {}, 1,
                    conversationId, contactId)

\* actions.map(execute): every decided action is dispatched
ExecuteActions(db, actions, failed, conversationId, contactId) ==
    ExecuteFrom(db, actions, failed, 1, conversationId, contactId)

\* Promise.allSettled: one settled result per promise, in the order of the
\* promises
allSettled(actions, failed) ==
    [i \in DOMAIN actions |->
        IF i \in failed THEN "rejected" ELSE "fulfilled"]

\* actionResults.map (part_002 129-133)
actionsTriggered(actions, actionResults) ==
    [i \in DOMAIN actionResults |->
        [action |-> IF i \in DOMAIN actions THEN actions[i] ELSE "unknown",
         status |-> IF actionResults[i] = "fulfilled" THEN "success"
                    ELSE "failed"]]

\* what a call that threw returns: nothing
Thrown(db, step, charged) ==
    [db |-> db, ok |-> FALSE, step |-> step, response |-> FALSE,
     actionsTriggered |-> << >>, creditsUsed |-> 0, charged |-> charged,
     messageId |-> NoId]

\* a run that charges the credits before it saves the outbound message
processMessageChargingFirst(db, agents, input, actions, failed, failAt) ==
    LET assigned == getOrAssignAgent(db, agents, input.conversationId,
                                     input.organizationId)
        assignment == assigned.db.assignment[assigned.id]
        executed == ExecuteActions(assigned.db, actions, failed,
                                   input.conversationId, input.contactId)
        saved == [executed EXCEPT !.message =
                     Append(@, AssistantMessage(input.conversationId, actions))]
        counted == [saved EXCEPT !.assignment =
                       [@ EXCEPT ![assigned.id].messagesHandled =
                                     assignment.messagesHandled + 1,
                                 ![assigned.id].creditsUsed =
                                     assignment.creditsUsed + TokensUsed]]
    IN  IF ~assigned.ok
        THEN Thrown(assigned.db, "agent", "none")
        ELSE IF input.contactId \notin DOMAIN db.contact
        THEN Thrown(assigned.db, "context", "none")
        ELSE IF failAt = "generate"
        THEN Thrown(assigned.db, failAt, "none")
        ELSE IF failAt = "charge"
        THEN Thrown(executed, failAt, "rejected")
        ELSE IF failAt = "save"
        THEN Thrown(executed, failAt, "charged")
        ELSE IF failAt = "stats"
        THEN Thrown(saved, failAt, "charged")
        ELSE [db |-> counted, ok |-> TRUE, step |-> "none", response |-> TRUE,
              actionsTriggered |->
                  actionsTriggered(actions, allSettled(actions, failed)),
              creditsUsed |-> TokensUsed,
              charged |-> IF failAt = "refused" THEN "refused" ELSE "charged",
              messageId |-> Len(saved.message)]

\* failAt names the step at which a collaborator throws ("generate", "save",
\* "charge" or "stats"), "refused" when consumeCredits returns without
\* deducting, or "none".  Nothing is rolled back: every write uses db.
\* charged tells what became of the charge: "none" (not attempted),
\* "charged", "refused" or "rejected" (consumeCredits threw).
processMessage(db, agents, input, actions, failed, failAt) ==
    LET assigned == getOrAssignAgent(db, agents, input.conversationId,
                                     input.organizationId)
        assignment == assigned.db.assignment[assigned.id]
        executed == ExecuteActions(assigned.db, actions, failed,
                                   input.conversationId, input.contactId)
        saved == [executed EXCEPT !.message =
                     Append(@, AssistantMessage(input.conversationId, actions))]
        counted == [saved EXCEPT !.assignment =
                       [@ EXCEPT ![assigned.id].messagesHandled =
                                     assignment.messagesHandled + 1,
                                 ![assigned.id].creditsUsed =
                                     assignment.creditsUsed + TokensUsed]]
    IN  IF ~assigned.ok
        THEN Thrown(assigned.db, "agent", "none")
        ELSE IF input.contactId \notin DOMAIN db.contact
        THEN Thrown(assigned.db, "context", "none")
        ELSE IF failAt = "generate"
        THEN Thrown(assigned.db, failAt, "none")
        ELSE IF failAt = "save"
        THEN Thrown(executed, failAt, "none")
        ELSE IF failAt = "charge"
        THEN Thrown(saved, failAt, "rejected")
        ELSE IF failAt = "stats"
        THEN Thrown(saved, failAt, "charged")
        ELSE [db |-> counted, ok |-> TRUE, step |-> "none", response |-> TRUE,
              actionsTriggered |->
                  actionsTriggered(actions, allSettled(actions, failed)),
              creditsUsed |-> TokensUsed,
              charged |-> IF failAt = "refused" THEN "refused" ELSE "charged",
              messageId |-> Len(saved.message)]

----------------------------------------------------------------------------
(* Inputs *)

Ana == << "A", "n", "a" >>
ana == << "a", "n", "a" >>
Diaz == << "D", "i", "a", "z" >>
Dias == << "D", "i", "a", "s" >>
Bob == << "B", "o", "b" >>
Ruiz == << "R", "u", "i", "z" >>
AnaAtX == << "a", "n", "a", "@", "x" >>
AnaAtY == << "a", "n", "a", "@", "y" >>
PhoneLocal == << "5", "5", "5", "1", "2", "3", "4", "5", "6", "7" >>

Person(firstName, lastName, email, phone) ==
    [firstName |-> firstName, lastName |-> lastName,
     email |-> email, phone |-> phone]

People == { Person(Ana, Diaz, AnaAtX, NULL),
            Person(ana, Dias, AnaAtY, PhoneLocal),
            Person(Ana, Diaz, AnaAtX, PhoneLocal),
            Person(Bob, Ruiz, NULL, NULL) }

\* the data submitted to forms
Submissions == { Person(Ana, Diaz, AnaAtX, NULL),
                 Person(ana, Dias, AnaAtY, PhoneLocal),
                 Person(Bob, Ruiz, NULL, NULL),
                 Person(NULL, NULL, AnaAtX, NULL) }

Organizations == {1, 2}

ContactIds == 1..MaxContacts

RECURSIVE Reverse(_)
Reverse(s) == IF s = << >> THEN << >> ELSE Append(Reverse(Tail(s)), Head(s))

\* the scan orders tried: by ascending and by descending id
Heaps == {SeqOfSet(ContactIds), Reverse(SeqOfSet(ContactIds))}

\* the calls of findOrCreateContact tried: everybody in organization 1, and
\* one person of organization 1 in organization 2 as well
Lookups == {<< 1, d >> : d \in People}
           \cup {<< 2, Person(Ana, Diaz, AnaAtX, NULL) >>}

WithinBounds(db) ==
    /\ Len(db.contact) <= MaxContacts
    /\ \A i \in DOMAIN db.contact :
          /\ db.contact[i].interactionCount <= MaxInteractions
          /\ OrZero(db.contact[i].lifetimeValue) <= MaxLifetimeValue
    /\ Len(db.source) <= MaxSources
    /\ \A i \in DOMAIN db.source : db.source[i].interactionCount <= MaxInteractions
    /\ Len(db.conversation) <= MaxConversations
    /\ Len(db.assignment) <= MaxAssignments
    /\ Len(db.submission) <= MaxSubmissions
    /\ Len(db.message) <= MaxMessages
    /\ Len(db.note) <= MaxNotes

\* the record of a call: the operation, whether it returned (ok) or threw
\* (error), the contact id it was given or returned, the duplicate ids it was
\* given, the number it returned (for findOrCreateContact: the contacts it
\* created), and the organization and data given to findOrCreateContact
NoCall == [op |-> "none", ok |-> TRUE, error |-> "none", id |-> NoId,
           ids |-> {}, count |-> 0, org |-> NoId,
           data |-> Person(NULL, NULL, NULL, NULL)]

----------------------------------------------------------------------------
(* Actions: one per call *)

FindOrCreateContact(organizationId, data, heap) ==
    \E r \in {findOrCreateContact(DB, heap, organizationId,
                     [firstName |-> data.firstName, lastName |-> data.lastName,
                      email |-> data.email, phone |-> data.phone,
                      sourceType |-> "manual", sourceIdentifier |-> NoId], now)} :
        /\ WithinBounds(r.db)
        /\ SetDB(r.db)
        /\ last' = [NoCall EXCEPT !.op = "findOrCreateContact", !.id = r.id,
                                  !.count = IF r.created THEN 1 ELSE 0,
                                  !.org = organizationId, !.data = data]
        /\ UNCHANGED << agentTable, now, requests >>

MergeContacts(primaryId, duplicateIds, heap, failAt) ==
    \E r \in {mergeContacts(DB, heap, primaryId, duplicateIds, failAt, now)} :
        /\ WithinBounds(r.db)
        /\ SetDB(r.db)
        /\ last' = [NoCall EXCEPT !.op = "mergeContacts", !.ok = r.ok,
                                  !.error = r.error, !.id = primaryId,
                                  !.ids = duplicateIds]
        /\ UNCHANGED << agentTable, now, requests >>

AutoMergeHighConfidenceDuplicates(organizationId, heap) ==
    \E r \in {autoMergeHighConfidenceDuplicates(DB, heap, organizationId,
                                                 NoFault, now)} :
        /\ WithinBounds(r.db)
        /\ SetDB(r.db)
        /\ last' = [NoCall EXCEPT !.op = "autoMergeHighConfidenceDuplicates",
                                  !.count = r.mergeCount]
        /\ UNCHANGED << agentTable, now, requests >>

ProcessFormSubmission(formId, data, heap, visible) ==
    \E r \in {processFormSubmission(DB, agentTable, heap, formId, data, visible, now)} :
        /\ WithinBounds(r.db)
        /\ SetDB(r.db)
        /\ last' = [NoCall EXCEPT !.op = "processFormSubmission", !.ok = r.ok,
                                  !.id = r.contactId]
        /\ UNCHANGED << agentTable, now, requests >>

----------------------------------------------------------------------------
(* The identity resolver from an empty store *)

Agent(organizationId, active, type, channels) ==
    [organizationId |-> organizationId, active |-> active, type |-> type,
     assignToChannels |-> channels, assignToCampaigns |-> {},
     voiceProvider |-> "none"]

Form(organizationId, active, requiredFields, action, agentId) ==
    [organizationId |-> organizationId, active |-> active,
     requiredFields |-> requiredFields, postSubmitAction |-> action,
     assignToAgentId |-> agentId, submissions |-> 0]

InitAgents == << Agent(1, TRUE, "sales", {"web"}),
                 Agent(1, TRUE, "support", {"whatsapp"}),
                 Agent(1, FALSE, "sales", {"web", "whatsapp"}) >>

InitForms == << Form(1, TRUE, {"firstName"}, "start_conversation", 1),
                Form(1, TRUE, {"email"}, "show_message", NoId),
                Form(1, FALSE, {}, "show_message", NoId) >>

Init ==
    /\ contactTable = << >>
    /\ contactSourceTable = << >>
    /\ conversationTable = << >>
    /\ agentAssignmentTable = << >>
    /\ formSubmissionTable = << >>
    /\ contactNoteTable = << >>
    /\ contactAgreementTable = << >>
    /\ voiceCallTable = << >>
    /\ conversationMessageTable = << >>
    /\ formTable = InitForms
    /\ agentTable = InitAgents
    /\ now = 0
    /\ last = NoCall
    /\ requests = << >>

Next ==
    \/ \E c \in Lookups, h \in Heaps :
          FindOrCreateContact(c[1], c[2], h)
    \/ \E p \in ContactIds, D \in SUBSET ContactIds, h \in Heaps :
          MergeContacts(p, D, h, 0)
    \/ \E o \in Organizations, h \in Heaps :
          AutoMergeHighConfidenceDuplicates(o, h)
    \/ \E f \in DOMAIN formTable, d \in Submissions, h \in Heaps,
          v \in BOOLEAN :
          ProcessFormSubmission(f, d, h, v)

Spec == Init /\ [][Next]_vars

----------------------------------------------------------------------------
(* Merge pointers *)

RECURSIVE FollowMerged(_, _, _)
\* the contacts met when following mergedWithId from contact i, n hops at most
FollowMerged(table, i, n) ==
    IF n = 0 \/ i \notin DOMAIN table \/ table[i].mergedWithId = NoId THEN {}
    ELSE {table[i].mergedWithId} \cup FollowMerged(table, table[i].mergedWithId, n - 1)

MergedPointsToActive ==
    \A i \in DOMAIN contactTable :
        contactTable[i].status = ContactStatus.merged
        => /\ contactTable[i].mergedWithId \in DOMAIN contactTable
           /\ contactTable[contactTable[i].mergedWithId].status = ContactStatus.active

NoMergeCycle ==
    \A i \in DOMAIN contactTable :
        i \notin FollowMerged(contactTable, i, Len(contactTable))

\* C1: every merged contact points to an active contact, and the merge
\* pointers form no cycle (no contact is merged into itself)
C1_MergePointersSound == MergedPointsToActive /\ NoMergeCycle

----------------------------------------------------------------------------
(* findOrCreateContact: C7, C8 *)

\* the active contacts of the organization that carry the email / the phone
ActiveWithEmail(table, organizationId, email) ==
    {i \in DOMAIN table : /\ table[i].organizationId = organizationId
                          /\ table[i].status = ContactStatus.active
                          /\ Truthy(email) /\ table[i].email = email}

ActiveWithPhone(table, organizationId, phone) ==
    {i \in DOMAIN table : /\ table[i].organizationId = organizationId
                          /\ table[i].status = ContactStatus.active
                          /\ Truthy(phone) /\ table[i].phone = phone}

WithEmail(table, organizationId, email) ==
    {i \in DOMAIN table : /\ table[i].organizationId = organizationId
                          /\ table[i].email = email}

\* this step is a call of findOrCreateContact
FindStep == last'.op = "findOrCreateContact"

\* this step is the second of two calls in sequence with the same email for
\* the same organization
SecondFindStep ==
    /\ last.op = "findOrCreateContact" /\ FindStep
    /\ last'.org = last.org
    /\ Truthy(last.data.email) /\ last'.data.email = last.data.email

\* C7 as stated: the second call returns the contact of the first, exactly
\* one contact of the organization has the email, and the contact's
\* interactionCount is 1 after the first call and 2 after the second
C7_TwiceSameEmailAsStated ==
    [][SecondFindStep =>
          /\ last'.id = last.id
          /\ Cardinality(WithEmail(contactTable', last.org, last.data.email)) = 1
          /\ contactTable[last.id].interactionCount = 1
          /\ contactTable'[last'.id].interactionCount = 2]_vars

\* C7 as amended: every call adds exactly 1 to the interactionCount of the
\* contact it returns (a created contact starts at 1); when the first of two
\* calls in sequence with the same email created the contact or found it by
\* that email, and the contact is the only active contact of the organization
\* with that email, the second call returns the same contact, which still is
\* the only active contact of the organization with that email; and when the
\* first call created it, its interactionCount is 1 after the first call and
\* 2 after the second
C7_TwiceSameEmail ==
    [][FindStep =>
          /\ contactTable'[last'.id].interactionCount =
                IF last'.count = 1 THEN 1
                ELSE contactTable[last'.id].interactionCount + 1
          /\ (/\ SecondFindStep
              /\ contactTable[last.id].email = last.data.email
              /\ ActiveWithEmail(contactTable, last.org, last.data.email)
                    = {last.id})
                => /\ last'.id = last.id
                   /\ ActiveWithEmail(contactTable', last.org, last.data.email)
                         = {last.id}
                   /\ last.count = 1
                         => /\ contactTable[last.id].interactionCount = 1
                            /\ contactTable'[last.id].interactionCount = 2]_vars

\* a second call with the email of the contact has found it: the contact was
\* created with interactionCount 1 and now has 2
C7_Witness ==
    /\ last.op = "findOrCreateContact" /\ last.count = 0
    /\ Truthy(last.data.email)
    /\ contactTable[last.id].email = last.data.email
    /\ contactTable[last.id].interactionCount = 2

\* C8: the call resolves to an active contact of the organization with the
\* given email if there is one, else to one with the given phone, else it
\* creates an active contact with interactionCount 1 and heatScore 0 and one
\* contact-source row for it
C8_LookupOrder ==
    [][FindStep =>
          LET byEmail == ActiveWithEmail(contactTable, last'.org, last'.data.email)
              byPhone == ActiveWithPhone(contactTable, last'.org, last'.data.phone)
              created == contactTable'[last'.id]
          IN  IF byEmail # {}
              THEN last'.id \in byEmail /\ Len(contactTable') = Len(contactTable)
              ELSE IF byPhone # {}
              THEN last'.id \in byPhone /\ Len(contactTable') = Len(contactTable)
              ELSE /\ last'.ok
                   /\ last'.id = Len(contactTable) + 1
                   /\ Len(contactTable') = Len(contactTable) + 1
                   /\ created.status = ContactStatus.active
                   /\ created.organizationId = last'.org
                   /\ created.interactionCount = 1
                   /\ created.heatScore = 0
                   /\ Len(contactSourceTable') = Len(contactSourceTable) + 1
                   /\ contactSourceTable'[Len(contactSourceTable')].contactId
                         = last'.id]_vars

\* a call carrying the email of one active contact and the phone of another
\* has resolved to the contact with the email
C8_Witness ==
    /\ last.op = "findOrCreateContact" /\ last.count = 0
    /\ \E j \in DOMAIN contactTable :
          /\ j # last.id
          /\ contactTable[j].status = ContactStatus.active
          /\ contactTable[j].organizationId = last.org
          /\ Truthy(last.data.phone) /\ contactTable[j].phone = last.data.phone
    /\ Truthy(last.data.email)
    /\ contactTable[last.id].email = last.data.email
    /\ contactTable[last.id].phone # last.data.phone

----------------------------------------------------------------------------
(* The merge of a ledger of existing contacts: C2..C6 *)

LedgerContacts == 3      \* contacts of the ledger
LedgerInteractions == 5  \* cap on an interactionCount in the ledger
MaxDuplicateIds == 2     \* ids in the duplicateIds of a call

LedgerIds == 1..LedgerContacts

\* the ids given to mergeContacts: those of the ledger and one that names no
\* contact
GivenIds == 1..(LedgerContacts + 1)

LedgerHeaps == {SeqOfSet(LedgerIds), Reverse(SeqOfSet(LedgerIds))}

\* the name, email and phone of the k-th contact of the ledger: the first
\* has neither email nor phone
LedgerPerson(k) ==
    CASE k = 1 -> Person(Ana, Diaz, NULL, NULL)
      [] k = 2 -> Person(Ana, Diaz, AnaAtX, PhoneLocal)
      [] OTHER -> Person(ana, Dias, AnaAtY, NULL)

LedgerContact(k, lifetimeValue) ==
    [NewContact(1, LedgerPerson(k), 0) EXCEPT
        !.interactionCount = IF k = 3 THEN 2 ELSE 1,
        !.lifetimeValue = lifetimeValue]

\* a row of a table that references a contact
RefRow(contactId) == [contactId |-> contactId]

\* the ledger: the contacts, active, each with the source row it was created
\* with, and rows of the other tables that reference contacts c and d; the
\* lifetimeValue of the first and of the third contact is NULL
InitLedger ==
    \E c \in LedgerIds : \E d \in LedgerIds \ {c} :
       /\ contactTable =
             [k \in LedgerIds |->
                 LedgerContact(k, CASE k = 1 -> Null [] k = 2 -> 1000
                                    [] k = 3 -> Null [] OTHER -> 2500)]
       /\ contactSourceTable =
             [k \in LedgerIds |->
                 NewSource(k, [sourceType |-> "manual", sourceIdentifier |-> NoId])]
       /\ conversationTable = << NewConversation(1, c) >>
       /\ agentAssignmentTable = << NewAssignment(1, 1, c) >>
       /\ contactNoteTable = << RefRow(c) >>
       /\ voiceCallTable = << RefRow(c) >>
       /\ contactAgreementTable = << RefRow(d) >>
       /\ formSubmissionTable = << RefRow(d) >>
       /\ conversationMessageTable = << >>
       /\ formTable = InitForms
       /\ agentTable = InitAgents
       /\ now = 0
       /\ last = NoCall
       /\ requests = << >>

WithinLedger(db) ==
    \A i \in DOMAIN db.contact :
       /\ db.contact[i].interactionCount <= LedgerInteractions
       /\ OrZero(db.contact[i].lifetimeValue) <= MaxLifetimeValue

MergeLedgerContacts(primaryId, duplicateIds, heap, failAt) ==
    \E r \in {mergeContacts(DB, heap, primaryId, duplicateIds, failAt, now)} :
        /\ now < MaxNow
        /\ WithinLedger(r.db)
        /\ SetDB(r.db)
        /\ last' = [NoCall EXCEPT !.op = "mergeContacts", !.ok = r.ok,
                                  !.error = r.error, !.id = primaryId,
                                  !.ids = duplicateIds]
        /\ now' = now + 1
        /\ UNCHANGED << agentTable, requests >>

\* a call names at most MaxDuplicateIds duplicates; the scan order is varied
\* for the calls in which no statement fails
NextMerge ==
    \E p \in GivenIds, D \in SUBSET GivenIds, h \in LedgerHeaps,
       failAt \in 0..(MergeStatements + 1) :
       /\ Cardinality(D) <= MaxDuplicateIds
       /\ failAt = 0 \/ h = SeqOfSet(LedgerIds)
       /\ MergeLedgerContacts(p, D, h, failAt)

SpecMerge == InitLedger /\ [][NextMerge]_vars

\* this step is a call of mergeContacts; it returned
MergeStep == last'.op = "mergeContacts"

MergeReturned == MergeStep /\ last'.ok

\* the tables a merge writes
mergeTables == << contactTable, contactSourceTable, conversationTable,
                  agentAssignmentTable, formSubmissionTable, contactNoteTable,
                  contactAgreementTable, voiceCallTable >>

\* the rows of the table reference contacts as the claim says: none of the
\* duplicates, the primary where they referenced a duplicate, and the same
\* contact as before otherwise
Repointed(before, after, primaryId, duplicateIds) ==
    /\ DOMAIN after = DOMAIN before
    /\ \A i \in DOMAIN before :
          /\ after[i].contactId \notin duplicateIds
          /\ before[i].contactId \in duplicateIds => after[i].contactId = primaryId
          /\ before[i].contactId \notin duplicateIds => after[i] = before[i]

RECURSIVE SumOfSet(_, _, _)
\* the sum of a field over the contacts of a set, NULL counting as 0
SumOfSet(table, ids, field) ==
    IF ids = {} THEN 0
    ELSE LET i == CHOOSE x \in ids : TRUE
         IN  OrZero(table[i][field]) + SumOfSet(table, ids \ {i}, field)

\* C2: after mergeContacts(primary, {dup1, dup2}) has returned for three
\* existing contacts, the primary is active and is the only active one of the
\* three, and both duplicates are merged with mergedWithId = primary
C2_ExactlyOneActive ==
    [][(/\ MergeReturned
        /\ Cardinality(last'.ids) = 2
        /\ last'.id \notin last'.ids
        /\ last'.ids \subseteq DOMAIN contactTable)
       => /\ contactTable'[last'.id].status = ContactStatus.active
          /\ \A d \in last'.ids :
                /\ contactTable'[d].status = ContactStatus.merged
                /\ contactTable'[d].mergedWithId = last'.id]_vars

\* C3: after mergeContacts has returned, no row of the seven referencing
\* tables references a contact of duplicateIds, the rows that did reference
\* the primary, and the other rows are as before
C3_ReferencesRepointed ==
    [][MergeReturned =>
          /\ Repointed(conversationTable, conversationTable', last'.id, last'.ids)
          /\ Repointed(contactAgreementTable, contactAgreementTable', last'.id, last'.ids)
          /\ Repointed(contactNoteTable, contactNoteTable', last'.id, last'.ids)
          /\ Repointed(contactSourceTable, contactSourceTable', last'.id, last'.ids)
          /\ Repointed(agentAssignmentTable, agentAssignmentTable', last'.id, last'.ids)
          /\ Repointed(formSubmissionTable, formSubmissionTable', last'.id, last'.ids)
          /\ Repointed(voiceCallTable, voiceCallTable', last'.id, last'.ids)]_vars

\* C4: after mergeContacts has returned, the primary's interactionCount is
\* its interactionCount before plus those of the duplicates before, and the
\* same holds of lifetimeValue, NULL counting as 0
C4_SumsOfPrimaryAndDuplicates ==
    [][MergeReturned =>
          LET found == last'.ids \cap DOMAIN contactTable
          IN  /\ contactTable'[last'.id].interactionCount =
                    contactTable[last'.id].interactionCount
                    + SumOfSet(contactTable, found, "interactionCount")
              /\ contactTable'[last'.id].lifetimeValue =
                    OrZero(contactTable[last'.id].lifetimeValue)
                    + SumOfSet(contactTable, found, "lifetimeValue")]_vars

\* a merge of two duplicates into a primary whose lifetimeValue was NULL has
\* returned: the primary holds the sums over the three contacts
C4_Witness ==
    /\ last.op = "mergeContacts" /\ last.ok
    /\ last.id = 1 /\ last.ids = {2, 3}
    /\ contactTable[1].interactionCount = 4
    /\ contactTable[1].lifetimeValue = 1000

\* C5 as stated: a call of mergeContacts that fails leaves the tables as they
\* were
C5_AllOrNothing ==
    [][MergeStep /\ ~last'.ok => UNCHANGED mergeTables]_vars

\* C5 as amended: a call of mergeContacts that fails inside its transaction
\* (a contact is not found, or a statement fails) leaves the tables as they
\* were
C5_TransactionAllOrNothing ==
    [][(/\ MergeStep
        /\ last'.error \in {"Primary contact not found",
                             "No duplicate contacts found", "statement failed"})
       => UNCHANGED mergeTables]_vars

\* a statement of a merge has failed, of a merge that had rows to re-point
\* and a duplicate to mark
C5_Witness ==
    /\ last.op = "mergeContacts" /\ last.error = "statement failed"
    /\ last.id \notin last.ids
    /\ \E d \in last.ids :
          /\ d \in DOMAIN contactTable
          /\ contactTable[d].status = ContactStatus.active
          /\ \E i \in DOMAIN conversationTable :
                conversationTable[i].contactId = d

\* C6 as stated: the call fails with a not-found error and changes nothing
\* when the primary does not exist or some id of duplicateIds names no contact
C6_NotFoundAsStated ==
    [][(/\ MergeStep
        /\ \/ last'.id \notin DOMAIN contactTable
           \/ \E d \in last'.ids : d \notin DOMAIN contactTable)
       => /\ last'.error \in {"Primary contact not found",
                              "No duplicate contacts found"}
          /\ UNCHANGED mergeTables]_vars

\* C6 as amended: the call fails with a not-found error and changes nothing
\* when the primary does not exist or no id of duplicateIds names a contact
C6_NotFound ==
    [][(/\ MergeStep
        /\ \/ last'.id \notin DOMAIN contactTable
           \/ last'.ids \cap DOMAIN contactTable = {})
       => /\ ~last'.ok
          /\ last'.error \in {"Primary contact not found",
                              "No duplicate contacts found"}
          /\ UNCHANGED mergeTables]_vars

\* a call whose duplicateIds name no contact has failed
C6_Witness ==
    /\ last.op = "mergeContacts" /\ ~last.ok
    /\ last.id \in DOMAIN contactTable
    /\ last.ids # {} /\ last.ids \cap DOMAIN contactTable = {}
    /\ last.error = "No duplicate contacts found"

----------------------------------------------------------------------------
(* The heat scorer on contacts of every kind: C9 *)

\* the time at which the scoring starts: contacts may have interacted up to
\* 61 days before
HeatEpoch == 61 * HalfDaysPerDay

\* the days since the last interaction, the interaction counts, the lifetime
\* values and the average response times tried: one of every bracket of the
\* scorer, at its end
DaysSince == {0, 1, 3, 7, 14, 30, 60, 61}
InteractionCounts == {0, 5, 15, 16}
LifetimeValues == {Null, 0, 1000, 10000, 50000, 100000}
ResponseTimes == {Null, 0, 299, 300, 1800, 7200, 86400}

HeatIds == 1..2

\* the scan order, which the scores do not depend on: by ascending id
HeatHeap == SeqOfSet(1..3)

HeatLookups == {Person(ana, Dias, AnaAtY, PhoneLocal), Person(Bob, Ruiz, NULL, NULL)}

\* two active contacts: the fields of the first that the scorer reads are
\* drawn from the sets above; the second is as findOrCreateContact made it
InitHeat ==
    \E days \in DaysSince \cup {Null}, count \in InteractionCounts,
       value \in LifetimeValues, time \in ResponseTimes :
       /\ contactTable =
             << [NewContact(1, Person(Ana, Diaz, AnaAtX, NULL), 0) EXCEPT
                    !.lastInteractionAt =
                        IF days = Null THEN Null
                        ELSE HeatEpoch - days * HalfDaysPerDay,
                    !.interactionCount = count,
                    !.lifetimeValue = value,
                    !.averageResponseTime = time],
                NewContact(1, Person(ana, Dias, AnaAtY, PhoneLocal), HeatEpoch) >>
       /\ contactSourceTable =
             [k \in HeatIds |->
                 NewSource(k, [sourceType |-> "manual", sourceIdentifier |-> NoId])]
       /\ conversationTable = << >>
       /\ agentAssignmentTable = << >>
       /\ contactNoteTable = << >>
       /\ voiceCallTable = << >>
       /\ contactAgreementTable = << >>
       /\ formSubmissionTable = << >>
       /\ conversationMessageTable = << >>
       /\ formTable = InitForms
       /\ agentTable = InitAgents
       /\ now = HeatEpoch
       /\ last = NoCall
       /\ requests = << >>

\* every call is made half a day after the one before
HeatClock ==
    /\ now < HeatEpoch + MaxNow
    /\ now' = now + 1

\* recalculateHeatScore(contactId): throws when the contact does not exist
RecalculateHeatScore(contactId) ==
    /\ HeatClock
    /\ IF contactId \in DOMAIN contactTable
       THEN /\ contactTable' = recalculateHeatScore(contactTable, contactId, now)
            /\ last' = [NoCall EXCEPT
                           !.op = "recalculateHeatScore", !.id = contactId,
                           !.count = calculateHeatScore(contactTable[contactId], now)]
       ELSE /\ contactTable' = contactTable
            /\ last' = [NoCall EXCEPT
                           !.op = "recalculateHeatScore", !.id = contactId,
                           !.ok = FALSE, !.error = "Contact not found"]
    /\ UNCHANGED << contactSourceTable, conversationTable, agentAssignmentTable,
                    formSubmissionTable, contactNoteTable, contactAgreementTable,
                    voiceCallTable, conversationMessageTable, formTable,
                    agentTable, requests >>

BatchRecalculateHeatScores(organizationId, heap) ==
    LET contacts == FindMany(contactTable, heap, LAMBDA r :
                        r.organizationId = organizationId
                        /\ r.status = ContactStatus.active)
    IN  /\ HeatClock
        /\ contactTable' = BatchLoop(contactTable, contacts, now)
        /\ last' = [NoCall EXCEPT !.op = "batchRecalculateHeatScores",
                                  !.org = organizationId,
                                  !.count = Len(contacts)]
        /\ UNCHANGED << contactSourceTable, conversationTable,
                        agentAssignmentTable, formSubmissionTable,
                        contactNoteTable, contactAgreementTable, voiceCallTable,
                        conversationMessageTable, formTable, agentTable,
                        requests >>

HeatFindOrCreateContact(organizationId, data, heap) ==
    \E r \in {findOrCreateContact(DB, heap, organizationId,
                     [firstName |-> data.firstName, lastName |-> data.lastName,
                      email |-> data.email, phone |-> data.phone,
                      sourceType |-> "manual", sourceIdentifier |-> NoId], now)} :
        /\ HeatClock
        /\ SetDB(r.db)
        /\ last' = [NoCall EXCEPT !.op = "findOrCreateContact", !.id = r.id,
                                  !.count = IF r.created THEN 1 ELSE 0,
                                  !.org = organizationId, !.data = data]
        /\ UNCHANGED << agentTable, requests >>

HeatMergeContacts(primaryId, duplicateIds, heap, failAt) ==
    \E r \in {mergeContacts(DB, heap, primaryId, duplicateIds, failAt, now)} :
        /\ HeatClock
        /\ SetDB(r.db)
        /\ last' = [NoCall EXCEPT !.op = "mergeContacts", !.ok = r.ok,
                                  !.error = r.error, !.id = primaryId,
                                  !.ids = duplicateIds]
        /\ UNCHANGED << agentTable, requests >>

NextHeat ==
    \/ \E c \in 1..3 : RecalculateHeatScore(c)
    \/ \E o \in Organizations : BatchRecalculateHeatScores(o, HeatHeap)
    \/ \E d \in HeatLookups : HeatFindOrCreateContact(1, d, HeatHeap)
    \/ \E p \in HeatIds, D \in SUBSET HeatIds \ {{}} :
          HeatMergeContacts(p, D, HeatHeap, 0)

SpecHeat == InitHeat /\ [][NextHeat]_vars

\* the contact has no last interaction, no interaction, no value and no
\* average response time
Unengaged(contact) ==
    /\ contact.lastInteractionAt = Null
    /\ contact.interactionCount = 0
    /\ contact.lifetimeValue = 0
    /\ contact.averageResponseTime = Null

\* C9: every stored heatScore is an integer from 0 to 100; the score that a
\* recalculation returns is from 0 to 100 and is the one stored, and it is 0
\* for a contact with no last interaction, interactionCount 0, lifetimeValue
\* 0 and no averageResponseTime
C9_HeatScoreBounded ==
    /\ \A i \in DOMAIN contactTable : contactTable[i].heatScore \in 0..100
    /\ (last.op = "recalculateHeatScore" /\ last.ok)
          => /\ last.count \in 0..100
             /\ contactTable[last.id].heatScore = last.count
             /\ Unengaged(contactTable[last.id]) => last.count = 0

\* a recalculation has stored the highest score, 100
C9_Witness ==
    /\ last.op = "recalculateHeatScore" /\ last.ok
    /\ last.count = 100
    /\ contactTable[last.id].heatScore = 100

----------------------------------------------------------------------------
(* The agent router, one call at a time: C10 *)

RouterConversations == 2  \* rows of conversationTable
RouterAssignments == 3    \* rows of agentAssignmentTable
RouterMessages == 2       \* rows of conversationMessageTable
RouterSubmissions == 2    \* rows of formSubmissionTable

WithinRouter(db) ==
    /\ Len(db.contact) <= MaxContacts
    /\ \A i \in DOMAIN db.contact :
          db.contact[i].interactionCount <= MaxInteractions
    /\ Len(db.conversation) <= RouterConversations
    /\ Len(db.assignment) <= RouterAssignments
    /\ Len(db.message) <= RouterMessages
    /\ Len(db.submission) <= RouterSubmissions
    /\ Len(db.note) <= MaxNotes

\* the data submitted to the forms of the router
RouterSubmitted == {Person(Ana, Diaz, AnaAtX, NULL)}

\* the scan order of the contacts: by ascending id
RouterHeap == SeqOfSet(ContactIds)

\* the actions decided for a message
DecidedActions == {<< >>, << "transfer-to-human" >>}

\* the agents given to assignAgentToConversation: an active one that no form
\* assigns, and the inactive one
AssignedAgents == {2, 3}

RouterProcessFormSubmission(formId, data, visible) ==
    \E r \in {processFormSubmission(DB, agentTable, RouterHeap, formId, data,
                                       visible, now)} :
        /\ WithinRouter(r.db)
        /\ SetDB(r.db)
        /\ last' = [NoCall EXCEPT !.op = "processFormSubmission", !.ok = r.ok]
        /\ UNCHANGED << agentTable, now, requests >>

AssignAgentToConversation(conversationId, agentId, contactId) ==
    \E r \in {assignAgentToConversation(DB, conversationTable, agentTable,
                                           conversationId, agentId, contactId, now)} :
        /\ WithinRouter(r.db)
        /\ SetDB(r.db)
        /\ last' = [NoCall EXCEPT !.op = "assignAgentToConversation",
                                  !.ok = r.ok]
        /\ UNCHANGED << agentTable, now, requests >>

UnassignAgent(assignmentId) ==
    \E r \in {unassignAgent(DB, assignmentId, "none", now)} :
        /\ SetDB(r.db)
        /\ last' = [NoCall EXCEPT !.op = "unassignAgent", !.ok = r.ok]
        /\ UNCHANGED << agentTable, now, requests >>

\* processMessage for a message of the contact of the conversation
ProcessMessage(conversationId, organizationId, actions, failAt) ==
    \E r \in {processMessage(DB, agentTable,
                   [conversationId |-> conversationId,
                    organizationId |-> organizationId,
                    contactId |->
                        IF conversationId \in DOMAIN conversationTable
                        THEN conversationTable[conversationId].contactId
                        ELSE 1],
                   actions, {}, failAt)} :
        /\ WithinRouter(r.db)
        /\ SetDB(r.db)
        /\ last' = [NoCall EXCEPT !.op = "processMessage", !.ok = r.ok]
        /\ UNCHANGED << agentTable, now, requests >>

NextRouter ==
    \/ \E f \in DOMAIN formTable, d \in RouterSubmitted, v \in BOOLEAN :
          RouterProcessFormSubmission(f, d, v)
    \/ \E c \in 1..RouterConversations, a \in AssignedAgents,
          k \in ContactIds :
          AssignAgentToConversation(c, a, k)
    \/ \E a \in 1..RouterAssignments : UnassignAgent(a)
    \/ \E c \in 1..RouterConversations, o \in Organizations,
          actions \in DecidedActions, failAt \in {"none", "generate"} :
          ProcessMessage(c, o, actions, failAt)

SpecRouter == Init /\ [][NextRouter]_vars

\* C10: every conversation has at most one assignment with unassignedAt =
\* NULL, and getCurrentAssignment returns it, or nothing when there is none
C10_OneOpenAssignment ==
    \A c \in 1..RouterConversations :
       LET open == OpenAssignments(agentAssignmentTable, c)
           current == getCurrentAssignment(agentAssignmentTable, c)
       IN  /\ Cardinality(open) <= 1
           /\ open = {} => current = NoId
           /\ open # {} => open = {current}

\* a conversation has been reassigned: one assignment of it is closed and
\* another is open, which getCurrentAssignment returns
C10_Witness ==
    \E c \in DOMAIN conversationTable :
       \E a, b \in DOMAIN agentAssignmentTable :
          /\ agentAssignmentTable[a].conversationId = c
          /\ agentAssignmentTable[b].conversationId = c
          /\ agentAssignmentTable[a].reasonForUnassignment =
                "Reassigned to different agent"
          /\ IsOpen(agentAssignmentTable[b])
          /\ getCurrentAssignment(agentAssignmentTable, c) = b

----------------------------------------------------------------------------
(* The engine, one processMessage call at a time: C14 to C17 *)

EngineCalls == 2  \* calls in a behaviour

\* one contact with two conversations: the first as processFormSubmission
\* starts it (web, with its agent assigned), the second as an inbound
\* WhatsApp message starts it (no agent assigned yet)
InitEngine ==
    /\ contactTable = << NewContact(1, Person(Ana, Diaz, AnaAtX, NULL), 0) >>
    /\ contactSourceTable =
          << NewSource(1, [sourceType |-> "form", sourceIdentifier |-> 1]) >>
    /\ conversationTable =
          << NewConversation(1, 1),
             [NewConversation(1, 1) EXCEPT !.channel = "whatsapp"] >>
    /\ agentAssignmentTable = << NewAssignment(1, 1, 1) >>
    /\ formSubmissionTable = << [formId |-> 1, contactId |-> 1] >>
    /\ contactNoteTable = << >>
    /\ contactAgreementTable = << >>
    /\ voiceCallTable = << >>
    /\ conversationMessageTable = << >>
    /\ formTable = [InitForms EXCEPT ![1].submissions = 1]
    /\ agentTable = InitAgents
    /\ now = 0
    /\ last = NoCall
    /\ requests = << >>

\* the calls are counted on the clock: one call every half day
EngineClock ==
    /\ now < EngineCalls
    /\ now' = now + 1

\* the action lists decideActions returns for a response
EngineActions ==
    {<< >>, << "create-note", "transfer-to-human" >>,
     << "send-link", "create-note" >>}

\* the step at which a collaborator fails
EngineFailures == {"none", "generate", "save", "charge", "refused", "stats"}

\* the record of a processMessage call: its input, the decided actions, the
\* positions whose executor threw, the collaborator that failed, and what
\* it returned
EngineProcessMessage(conversationId, organizationId, contactId, actions, failed, failAt) ==
    /\ EngineClock
    /\ \E r \in {processMessage(DB, agentTable,
                   [conversationId |-> conversationId,
                    organizationId |-> organizationId,
                    contactId |-> contactId],
                   actions, failed, failAt)} :
        /\ SetDB(r.db)
        /\ last' = [op |-> "processMessage", ok |-> r.ok, step |-> r.step,
                    id |-> conversationId, contactId |-> contactId,
                    actions |-> actions, failed |-> failed,
                    fault |-> failAt,
                    response |-> r.response,
                    actionsTriggered |-> r.actionsTriggered,
                    creditsUsed |-> r.creditsUsed, charged |-> r.charged,
                    messageId |-> r.messageId]
        /\ UNCHANGED << agentTable, requests >>

\* the reasons given to unassignAgent: none, or one
UnassignReasons == {"none", "Resolved"}

\* unassignAgent, so that a conversation loses its agent between messages
EngineUnassignAgent(assignmentId, reason) ==
    /\ EngineClock
    /\ \E r \in {unassignAgent(DB, assignmentId, reason, now)} :
        /\ SetDB(r.db)
        /\ last' = [op |-> "unassignAgent", ok |-> r.ok, id |-> assignmentId,
                    reason |-> reason]
        /\ UNCHANGED << agentTable, requests >>

NextEngine ==
    \/ \E c \in 1..3, o \in Organizations, k \in 1..2,
          actions \in EngineActions, failed \in SUBSET (1..2),
          failAt \in EngineFailures :
          /\ failed \subseteq DOMAIN actions
          /\ EngineProcessMessage(c, o, k, actions, failed, failAt)
    \/ \E a \in 1..3, reason \in UnassignReasons :
          EngineUnassignAgent(a, reason)

SpecEngine == InitEngine /\ [][NextEngine]_vars

\* a step of processMessage
EngineStep == last'.op = "processMessage"

\* the rows of a table that a step added
Added(before, after) == SubSeq(after, Len(before) + 1, Len(after))

\* C14: when the charge of a run fails after its outbound message was
\* saved, processMessage still returns the response, one outcome per decided
\* action and the cost, and the saved message stays
C14_ChargeFailureIsData ==
    [][EngineStep /\ last'.charged \in {"refused", "rejected"} =>
          /\ last'.ok
          /\ last'.response
          /\ Len(last'.actionsTriggered) = Len(last'.actions)
          /\ last'.creditsUsed = TokensUsed
          /\ \E m \in DOMAIN Added(conversationMessageTable,
                                   conversationMessageTable') :
                Added(conversationMessageTable, conversationMessageTable')[m]
                   = AssistantMessage(last'.id, last'.actions)]_vars

\* C15: a run whose charge was attempted or completed has appended its
\* outbound message, with its cost and its action list, as the last row of
\* the conversation's messages
C15_MessageBeforeCharge ==
    [][EngineStep /\ last'.charged # "none" =>
          /\ Len(conversationMessageTable') > Len(conversationMessageTable)
          /\ conversationMessageTable'[Len(conversationMessageTable')]
                = AssistantMessage(last'.id, last'.actions)
          /\ conversationMessageTable'[Len(conversationMessageTable')].creditsUsed
                = TokensUsed]_vars

\* a run whose charge was rejected, and one whose charge went through, after
\* the message was saved
C15_Witness ==
    /\ last.op = "processMessage"
    /\ last.charged = "rejected"
    /\ ~last.ok
    /\ last.actions # << >>
    /\ conversationMessageTable # << >>
    /\ conversationMessageTable[Len(conversationMessageTable)]
          = AssistantMessage(last.id, last.actions)

\* C16: a run that fails before its outbound message is saved leaves the
\* conversations, the messages, the assignments and the contacts as they were
C16_FailureLeavesStateUnchanged ==
    [][EngineStep /\ ~last'.ok /\ last'.step \in {"agent", "context", "generate"}
          => UNCHANGED << conversationTable, conversationMessageTable,
                          agentAssignmentTable, contactTable >>]_vars

\* the positions of the decided actions of the last call whose handler
\* completed, for one action type
Completed(call, type) ==
    {i \in DOMAIN call.actions : call.actions[i] = type /\ i \notin call.failed}

\* C17: in a run that reaches the execution of the actions, the handler of
\* every decided action whose executor does not throw has run, whatever
\* became of the others; no failing action makes the run fail; and the
\* returned list has one entry per decided action, in decided order, with
\* status "success" for a completed handler and "failed" otherwise
C17_ActionsSettleIndependently ==
    [][EngineStep /\ last'.step \notin {"agent", "context", "generate"} =>
          /\ Len(contactNoteTable') =
                Len(contactNoteTable) + Cardinality(Completed(last', "create-note"))
          /\ Completed(last', "transfer-to-human") # {}
                => conversationTable'[last'.id].transferredToHuman
          /\ Cardinality({m \in DOMAIN Added(conversationMessageTable,
                                             conversationMessageTable') :
                 Added(conversationMessageTable, conversationMessageTable')[m]
                    .actionTriggered = << "send-link" >>})
                = Cardinality(Completed(last', "send-link"))
          /\ last'.fault \in {"none", "refused"} =>
                /\ last'.ok
                /\ DOMAIN last'.actionsTriggered = DOMAIN last'.actions
                /\ \A i \in DOMAIN last'.actions :
                      /\ last'.actionsTriggered[i].action = last'.actions[i]
                      /\ last'.actionsTriggered[i].status =
                            IF i \in last'.failed THEN "failed" ELSE "success"]_vars

\* the first of two decided actions failed, the second ran and the run
\* returned both outcomes
C17_Witness ==
    /\ last.op = "processMessage"
    /\ last.ok
    /\ last.actions = << "send-link", "create-note" >>
    /\ last.failed = {1}
    /\ last.actionsTriggered =
          << [action |-> "send-link", status |-> "failed"],
             [action |-> "create-note", status |-> "success"] >>
    /\ contactNoteTable # << >>

----------------------------------------------------------------------------
(* The conversation endpoint and the channel manager, statement by          *)
(* statement: route.ts 16-114 and canales/manager.ts 170-278.  A request in *)
(* flight is its position (pc) and the conversation row it read.            *)

ConversationRequests == 3  \* requests in a behaviour

\* one contact with a phone and its WhatsApp conversation, not yet assigned
InitConversation ==
    /\ contactTable =
          << NewContact(1, Person(ana, Dias, AnaAtY, PhoneLocal), 0) >>
    /\ contactSourceTable =
          << NewSource(1, [sourceType |-> "manual", sourceIdentifier |-> NoId]) >>
    /\ conversationTable =
          << [NewConversation(1, 1) EXCEPT !.channel = "whatsapp"] >>
    /\ agentAssignmentTable = << >>
    /\ formSubmissionTable = << >>
    /\ contactNoteTable = << >>
    /\ contactAgreementTable = << >>
    /\ voiceCallTable = << >>
    /\ conversationMessageTable = << >>
    /\ formTable = InitForms
    /\ agentTable = InitAgents
    /\ now = 0
    /\ last = NoCall
    /\ requests = << >>

\* the channels sendMessage has a recipient for (manager.ts 219-235)
SendChannels == {"whatsapp", "sms", "calls", "email"}

\* the record of a step of a request: the operation, the conversation, and
\* for processMessage whether it returned a response and what became of the
\* charge
Stepped(op, conversationId, response, charged) ==
    [op |-> op, id |-> conversationId, response |-> response,
     charged |-> charged]

\* a request arrives: a POST to the conversation endpoint or a sendMessage
Arrive(kind, conversationId) ==
    /\ Len(requests) < ConversationRequests
    /\ requests' = Append(requests,
                          [kind |-> kind, pc |-> "verify",
                           conversationId |-> conversationId,
                           messageCount |-> 0])
    /\ last' = Stepped(kind, conversationId, FALSE, "none")
    /\ UNCHANGED << contactTable, contactSourceTable, conversationTable,
                    agentAssignmentTable, formSubmissionTable, contactNoteTable,
                    contactAgreementTable, voiceCallTable,
                    conversationMessageTable, formTable, agentTable, now >>

\* route.ts 33-54: the conversation is read; 404 when absent, 403 when it is
\* handled by a human
PostVerify(i) ==
    /\ requests[i].kind = "POST" /\ requests[i].pc = "verify"
    /\ LET c == requests[i].conversationId
       IN  requests' =
              IF c \notin DOMAIN conversationTable
                 \/ conversationTable[c].transferredToHuman
              THEN [requests EXCEPT ![i].pc = "done"]
              ELSE [requests EXCEPT
                       ![i].pc = "save",
                       ![i].messageCount = conversationTable[c].messageCount]
    /\ last' = Stepped("POST", requests[i].conversationId, FALSE, "none")
    /\ UNCHANGED << contactTable, contactSourceTable, conversationTable,
                    agentAssignmentTable, formSubmissionTable, contactNoteTable,
                    contactAgreementTable, voiceCallTable,
                    conversationMessageTable, formTable, agentTable, now >>

\* route.ts 56-64: the incoming message is saved
PostSave(i) ==
    /\ requests[i].kind = "POST" /\ requests[i].pc = "save"
    /\ conversationMessageTable' =
          Append(conversationMessageTable,
                 NewMessage(requests[i].conversationId, "inbound", "user", << >>))
    /\ requests' = [requests EXCEPT ![i].pc = "update"]
    /\ last' = Stepped("POST", requests[i].conversationId, FALSE, "none")
    /\ UNCHANGED << contactTable, contactSourceTable, conversationTable,
                    agentAssignmentTable, formSubmissionTable, contactNoteTable,
                    contactAgreementTable, voiceCallTable, formTable,
                    agentTable, now >>

\* route.ts 66-73: messageCount becomes the count read at 34 plus one
PostUpdate(i) ==
    /\ requests[i].kind = "POST" /\ requests[i].pc = "update"
    /\ conversationTable' =
          [conversationTable EXCEPT
              ![requests[i].conversationId].messageCount =
                  requests[i].messageCount + 1]
    /\ requests' = [requests EXCEPT ![i].pc = "process"]
    /\ last' = Stepped("POST", requests[i].conversationId, FALSE, "none")
    /\ UNCHANGED << contactTable, contactSourceTable, agentAssignmentTable,
                    formSubmissionTable, contactNoteTable,
                    contactAgreementTable, voiceCallTable,
                    conversationMessageTable, formTable, agentTable, now >>

\* route.ts 75-101: processMessage runs for the conversation and its contact
PostProcess(i, actions) ==
    /\ requests[i].kind = "POST" /\ requests[i].pc = "process"
    /\ \E r \in {processMessage(DB, agentTable,
                    [conversationId |-> requests[i].conversationId,
                     organizationId |->
                         conversationTable[requests[i].conversationId].organizationId,
                     contactId |->
                         conversationTable[requests[i].conversationId].contactId],
                    actions, {}, "none")} :
          /\ SetDB(r.db)
          /\ last' = Stepped("processMessage", requests[i].conversationId,
                             r.response, r.charged)
    /\ requests' = [requests EXCEPT ![i].pc = "done"]
    /\ UNCHANGED << agentTable, now >>

\* manager.ts 182-248: the conversation and its contact are read and the
\* message goes to the adapter, which throws when it is not delivered
SendLoad(i, delivered) ==
    /\ requests[i].kind = "sendMessage" /\ requests[i].pc = "verify"
    /\ LET c == requests[i].conversationId
           sendable == /\ c \in DOMAIN conversationTable
                       /\ conversationTable[c].channel \in SendChannels
                       /\ Truthy(contactTable[conversationTable[c].contactId].phone)
                       /\ delivered
       IN  requests' = [requests EXCEPT
                           ![i].pc = IF sendable THEN "save" ELSE "done"]
    /\ last' = Stepped("sendMessage", requests[i].conversationId, FALSE, "none")
    /\ UNCHANGED << contactTable, contactSourceTable, conversationTable,
                    agentAssignmentTable, formSubmissionTable, contactNoteTable,
                    contactAgreementTable, voiceCallTable,
                    conversationMessageTable, formTable, agentTable, now >>

\* manager.ts 250-265: the sent message is saved
SendSave(i) ==
    /\ requests[i].kind = "sendMessage" /\ requests[i].pc = "save"
    /\ conversationMessageTable' =
          Append(conversationMessageTable,
                 NewMessage(requests[i].conversationId, "outbound",
                            "human_agent", << >>))
    /\ requests' = [requests EXCEPT ![i].pc = "update"]
    /\ last' = Stepped("sendMessage", requests[i].conversationId, FALSE, "none")
    /\ UNCHANGED << contactTable, contactSourceTable, conversationTable,
                    agentAssignmentTable, formSubmissionTable, contactNoteTable,
                    contactAgreementTable, voiceCallTable, formTable,
                    agentTable, now >>

\* db.$count(conversationMessageTable, eq(conversationId))
CountMessages(messages, conversationId) ==
    Cardinality({m \in DOMAIN messages :
                    messages[m].conversationId = conversationId})

\* manager.ts 267-277: messageCount becomes the number of stored messages
SendUpdate(i) ==
    /\ requests[i].kind = "sendMessage" /\ requests[i].pc = "update"
    /\ conversationTable' =
          [conversationTable EXCEPT
              ![requests[i].conversationId].messageCount =
                  CountMessages(conversationMessageTable,
                                requests[i].conversationId)]
    /\ requests' = [requests EXCEPT ![i].pc = "done"]
    /\ last' = Stepped("sendMessage", requests[i].conversationId, FALSE, "none")
    /\ UNCHANGED << contactTable, contactSourceTable, agentAssignmentTable,
                    formSubmissionTable, contactNoteTable,
                    contactAgreementTable, voiceCallTable,
                    conversationMessageTable, formTable, agentTable, now >>

NextConversation ==
    \/ \E kind \in {"POST", "sendMessage"}, c \in 1..2 : Arrive(kind, c)
    \/ \E i \in DOMAIN requests : PostVerify(i)
    \/ \E i \in DOMAIN requests : PostSave(i)
    \/ \E i \in DOMAIN requests : PostUpdate(i)
    \/ \E i \in DOMAIN requests, actions \in DecidedActions : PostProcess(i, actions)
    \/ \E i \in DOMAIN requests, delivered \in BOOLEAN : SendLoad(i, delivered)
    \/ \E i \in DOMAIN requests : SendSave(i)
    \/ \E i \in DOMAIN requests : SendUpdate(i)

SpecConversation == InitConversation /\ [][NextConversation]_vars

\* C11: a processMessage call for a conversation whose transferredToHuman
\* flag is set returns no response, charges nothing and leaves the messages,
\* the notes, the conversations and the assignments as they were
C11_NoProcessingAfterTransfer ==
    [][(last'.op = "processMessage"
          /\ conversationTable[last'.id].transferredToHuman)
        => /\ ~last'.response
           /\ last'.charged = "none"
           /\ UNCHANGED << conversationMessageTable, contactNoteTable,
                           conversationTable, agentAssignmentTable >>]_vars

\* C12: no step lowers the messageCount of a conversation
C12_MessageCountNeverDecreases ==
    [][\A c \in DOMAIN conversationTable :
          conversationTable'[c].messageCount >= conversationTable[c].messageCount]_vars

----------------------------------------------------------------------------
(* unassignAgent between the messages of a conversation: C13 *)

\* C13: unassignAgent on an existing open assignment returns and sets its
\* unassignedAt and its reason (the given one, or "Manual unassignment"),
\* leaving the other rows alone; on an absent or closed assignment it throws
\* and leaves every assignment row as it was
C13_UnassignOnlyOpen ==
    [][last'.op = "unassignAgent" =>
          IF /\ last'.id \in DOMAIN agentAssignmentTable
             /\ IsOpen(agentAssignmentTable[last'.id])
          THEN /\ last'.ok
               /\ agentAssignmentTable' =
                     [agentAssignmentTable EXCEPT
                         ![last'.id].unassignedAt = now,
                         ![last'.id].reasonForUnassignment =
                             IF last'.reason = "none"
                             THEN "Manual unassignment" ELSE last'.reason]
          ELSE /\ ~last'.ok
               /\ UNCHANGED agentAssignmentTable]_vars

\* an unassignAgent with another reason has just failed on an assignment
\* that an earlier call closed, and the first reason is still there
C13_Witness ==
    /\ last.op = "unassignAgent"
    /\ ~last.ok
    /\ last.reason = "Resolved"
    /\ last.id \in DOMAIN agentAssignmentTable
    /\ agentAssignmentTable[last.id].unassignedAt \notin {Null, now - 1}
    /\ agentAssignmentTable[last.id].reasonForUnassignment = "Manual unassignment"

----------------------------------------------------------------------------
(* A form submission that starts a conversation: C18 *)

FormCalls == 2  \* calls in a behaviour

\* the calls are counted on the clock: one call every half day
FormClock ==
    /\ now < FormCalls
    /\ now' = now + 1

\* the data submitted: a first name and an email, and the same with a last
\* name or a phone
FormSubmitted == {Person(Ana, NULL, AnaAtX, NULL),
                  Person(Ana, Diaz, AnaAtX, NULL),
                  Person(Bob, NULL, AnaAtY, PhoneLocal)}

FormFindOrCreateContact(organizationId, data, heap) ==
    /\ FormClock
    /\ \E r \in {findOrCreateContact(DB, heap, organizationId,
                     [firstName |-> data.firstName, lastName |-> data.lastName,
                      email |-> data.email, phone |-> data.phone,
                      sourceType |-> "manual", sourceIdentifier |-> NoId], now)} :
        /\ SetDB(r.db)
        /\ last' = [NoCall EXCEPT !.op = "findOrCreateContact", !.id = r.id,
                                  !.org = organizationId, !.data = data]
        /\ UNCHANGED << agentTable, requests >>

\* the record of a submission: the form, the data and the result
FormProcessFormSubmission(formId, data, heap, visible) ==
    /\ FormClock
    /\ \E r \in {processFormSubmission(DB, agentTable, heap, formId, data,
                                       visible, now)} :
        /\ SetDB(r.db)
        /\ last' = [op |-> "processFormSubmission", ok |-> r.ok,
                    id |-> r.contactId, form |-> formId, data |-> data]
        /\ UNCHANGED << agentTable, requests >>

NextForm ==
    \/ \E c \in Lookups, h \in Heaps : FormFindOrCreateContact(c[1], c[2], h)
    \/ \E f \in DOMAIN formTable, d \in FormSubmitted, h \in Heaps,
          v \in BOOLEAN :
          FormProcessFormSubmission(f, d, h, v)

SpecForm == Init /\ [][NextForm]_vars

\* the submission of a first name and an email that no contact of the
\* form's organization has, to an active form that starts a conversation
\* with its agent
NewLeadSubmitted ==
    /\ last'.op = "processFormSubmission"
    /\ formTable[last'.form].active
    /\ formTable[last'.form].postSubmitAction = "start_conversation"
    /\ formTable[last'.form].assignToAgentId # NoId
    /\ Truthy(last'.data.firstName) /\ Truthy(last'.data.email)
    /\ ~Truthy(last'.data.lastName) /\ ~Truthy(last'.data.phone)
    /\ \A k \in DOMAIN contactTable :
          contactTable[k].organizationId = formTable[last'.form].organizationId
             => contactTable[k].email # last'.data.email

\* C18: such a submission returns the id of exactly one new contact, which
\* is active, and adds exactly one conversation, owned by that contact, and
\* exactly one assignment, which is the one open assignment of that
\* conversation
C18_NewLeadStartsConversation ==
    [][NewLeadSubmitted =>
          /\ last'.ok
          /\ Len(contactTable') = Len(contactTable) + 1
          /\ last'.id = Len(contactTable')
          /\ contactTable'[last'.id].status = ContactStatus.active
          /\ Len(conversationTable') = Len(conversationTable) + 1
          /\ conversationTable'[Len(conversationTable')].contactId = last'.id
          /\ Len(agentAssignmentTable') = Len(agentAssignmentTable) + 1
          /\ OpenAssignments(agentAssignmentTable', Len(conversationTable'))
                = {Len(agentAssignmentTable')}]_vars

----------------------------------------------------------------------------
(* detectDuplicateContacts on its own: merger.ts 103-223 *)

DetectContacts == 3      \* rows of contactTable when detection is called

PhoneUs == << "+", "1" >> \o PhoneLocal
PhoneOther == << "9", "9", "9", "4", "5", "6", "7" >>

\* the rows the contact table is drawn from: its organization, its person
\* and its status
DetectRows ==
    { << 1, Person(Ana, Diaz, AnaAtX, NULL), ContactStatus.active >>,
      << 1, Person(ana, Dias, AnaAtY, PhoneUs), ContactStatus.active >>,
      << 1, Person(Ana, Diaz, AnaAtY, PhoneOther), ContactStatus.active >>,
      << 1, Person(ana, Dias, NULL, NULL), ContactStatus.active >>,
      << 1, Person(Ana, Diaz, AnaAtX, PhoneLocal), ContactStatus.merged >>,
      << 2, Person(Ana, Diaz, AnaAtX, PhoneLocal), ContactStatus.active >> }

DetectContact(row) ==
    [NewContact(row[1], row[2], 0) EXCEPT !.status = row[3]]

\* the contacts detection is asked about
DetectInputs == { Person(Ana, Diaz, AnaAtX, PhoneLocal),
                  Person(Ana, NULL, AnaAtX, NULL),
                  Person(Bob, Ruiz, NULL, PhoneLocal) }

\* the thresholds tried: the default, and the one of the automatic merge
DetectThresholds == {70, AutoMergeThreshold}

\* every scan order of the table
DetectHeaps ==
    { h \in [1..DetectContacts -> 1..DetectContacts] :
         \A i, j \in 1..DetectContacts : h[i] = h[j] => i = j }

InitDetect ==
    /\ contactTable \in { [k \in 1..DetectContacts |-> DetectContact(rows[k])] :
                             rows \in [1..DetectContacts -> DetectRows] }
    /\ contactSourceTable = << >>
    /\ conversationTable = << >>
    /\ agentAssignmentTable = << >>
    /\ formSubmissionTable = << >>
    /\ contactNoteTable = << >>
    /\ contactAgreementTable = << >>
    /\ voiceCallTable = << >>
    /\ conversationMessageTable = << >>
    /\ formTable = InitForms
    /\ agentTable = InitAgents
    /\ now = 0
    /\ last = NoCall
    /\ requests = << >>

\* one detection on each table; the record of it: what was asked, the scan
\* order, and the candidates returned
DetectDuplicateContacts(organizationId, contact, threshold, heap) ==
    /\ last.op = "none"
    /\ last' = [op |-> "detectDuplicateContacts", org |-> organizationId,
                data |-> contact, threshold |-> threshold, heap |-> heap,
                candidates |-> detectDuplicateContacts(contactTable, heap,
                                  organizationId, contact, threshold)]
    /\ UNCHANGED << contactTable, contactSourceTable, conversationTable,
                    agentAssignmentTable, formSubmissionTable, contactNoteTable,
                    contactAgreementTable, voiceCallTable,
                    conversationMessageTable, formTable, agentTable, now,
                    requests >>

NextDetect ==
    \E o \in Organizations, d \in DetectInputs, t \in DetectThresholds,
       h \in DetectHeaps :
       DetectDuplicateContacts(o, d, t, h)

SpecDetect == InitDetect /\ [][NextDetect]_vars

Detected == last.op = "detectDuplicateContacts"

SearchedRow(id) ==
    /\ contactTable[id].organizationId = last.org
    /\ contactTable[id].status = ContactStatus.active

SameEmail(id) ==
    Truthy(last.data.email) /\ contactTable[id].email = last.data.email

SamePhone(id) ==
    /\ Truthy(last.data.phone) /\ Truthy(contactTable[id].phone)
    /\ normalizePhoneNumber(contactTable[id].phone)
          = normalizePhoneNumber(last.data.phone)

\* the pass that finds a contact first
DiscoveryPass(id) ==
    IF SameEmail(id) THEN 1 ELSE IF SamePhone(id) THEN 2 ELSE 3

\* the place of a contact in the order of discovery: by pass, and within a
\* pass by the order of the scan
Discovery(id) ==
    DiscoveryPass(id) * (Len(last.heap) + 1)
       + (CHOOSE p \in DOMAIN last.heap : last.heap[p] = id)

\* C19: detectDuplicateContacts returns each id at most once; the candidates
\* are active contacts of the organization, every one of them with the same
\* email (confidence 1.0) and every one with the same normalized phone
\* (0.95 unless it has the same email); the others have at most 0.95; the
\* list is in non-increasing confidence and equal confidences are in the
\* order of discovery
C19_DetectionOrderAndConfidence ==
    Detected =>
       /\ \A i, j \in DOMAIN last.candidates :
             last.candidates[i].id = last.candidates[j].id => i = j
       /\ \A i \in DOMAIN last.candidates :
             /\ last.candidates[i].id \in DOMAIN contactTable
             /\ SearchedRow(last.candidates[i].id)
             /\ CASE DiscoveryPass(last.candidates[i].id) = 1 ->
                        last.candidates[i].confidence = Conf(100)
                  [] DiscoveryPass(last.candidates[i].id) = 2 ->
                        last.candidates[i].confidence = Conf(95)
                  [] OTHER -> last.candidates[i].confidence <= Conf(95)
       /\ \A id \in DOMAIN contactTable :
             SearchedRow(id) /\ (SameEmail(id) \/ SamePhone(id))
                => id \in CandidateIds(last.candidates)
       /\ \A i, j \in DOMAIN last.candidates :
             i < j =>
                \/ last.candidates[i].confidence > last.candidates[j].confidence
                \/ /\ last.candidates[i].confidence = last.candidates[j].confidence
                   /\ Discovery(last.candidates[i].id)
                         < Discovery(last.candidates[j].id)

\* an email match, then a phone match and a name match of the same
\* confidence, the name match scanned before the phone match
C19_Witness ==
    /\ Detected
    /\ Len(last.candidates) = 3
    /\ DiscoveryPass(last.candidates[1].id) = 1
    /\ DiscoveryPass(last.candidates[2].id) = 2
    /\ DiscoveryPass(last.candidates[3].id) = 3
    /\ last.candidates[3].confidence = Conf(95)
    /\ Discovery(last.candidates[3].id) - 3 * (Len(last.heap) + 1)
          < Discovery(last.candidates[2].id) - 2 * (Len(last.heap) + 1)

----------------------------------------------------------------------------
(* selectBestAgent on its own: manager.ts 29-107 *)

AgentRows == 3           \* rows of agentTable when an agent is selected

\* the rows the agent table is drawn from
Agents ==
    { Agent(1, TRUE, "sales", {"web"}),
      Agent(1, TRUE, "sales", {}),
      Agent(1, TRUE, "support", {"whatsapp"}),
      [Agent(1, TRUE, "qualifier", {"calls"}) EXCEPT
          !.assignToCampaigns = {"promo"}, !.voiceProvider = "elevenlabs"],
      [Agent(1, FALSE, "sales", {"web", "whatsapp", "calls"}) EXCEPT
          !.assignToCampaigns = {"promo"}, !.voiceProvider = "elevenlabs"],
      Agent(2, TRUE, "support", {"web"}) }

AgentSelectionCriteria ==
    [channel : {"web", "calls"}, campaign : {"none", "promo"},
     contactId : {NoId, 1}, intent : {"none", "help"}]

\* every order in which the store may return the agents
AgentHeaps ==
    { h \in [1..AgentRows -> 1..AgentRows] :
         \A i, j \in 1..AgentRows : h[i] = h[j] => i = j }

InitSelect ==
    /\ agentTable \in [1..AgentRows -> Agents]
    /\ contactTable = << >>
    /\ contactSourceTable = << >>
    /\ conversationTable = << >>
    /\ agentAssignmentTable = << >>
    /\ formSubmissionTable = << >>
    /\ contactNoteTable = << >>
    /\ contactAgreementTable = << >>
    /\ voiceCallTable = << >>
    /\ conversationMessageTable = << >>
    /\ formTable = InitForms
    /\ now = 0
    /\ last = NoCall
    /\ requests = << >>

\* one selection on each table; the record of it: what was asked, the order
\* of the agents, and the id returned
SelectBestAgent(organizationId, criteria, heap) ==
    /\ last.op = "none"
    /\ last' = [op |-> "selectBestAgent", org |-> organizationId,
                criteria |-> criteria, heap |-> heap,
                id |-> selectBestAgent(agentTable, heap, organizationId,
                                       criteria)]
    /\ UNCHANGED << contactTable, contactSourceTable, conversationTable,
                    agentAssignmentTable, formSubmissionTable, contactNoteTable,
                    contactAgreementTable, voiceCallTable,
                    conversationMessageTable, formTable, agentTable, now,
                    requests >>

NextSelect ==
    \E o \in Organizations, c \in AgentSelectionCriteria, h \in AgentHeaps :
       SelectBestAgent(o, c, h)

SpecSelect == InitSelect /\ [][NextSelect]_vars

Selected == last.op = "selectBestAgent"

\* the active agents of the organization asked about
ActiveAgents ==
    {i \in DOMAIN agentTable :
        agentTable[i].organizationId = last.org /\ agentTable[i].active}

InputOrder(id) == CHOOSE p \in DOMAIN last.heap : last.heap[p] = id

ListsChannel(id) == last.criteria.channel \in agentTable[id].assignToChannels

\* C20: selectBestAgent returns null when the organization has no active
\* agent; otherwise an active agent of the organization whose score no
\* other one exceeds, and the first of those with that score in the order
\* the agents came in; of three agents that differ only in their channels,
\* one of which lists the channel, it returns that one
C20_BestAgentSelected ==
    Selected =>
       /\ ActiveAgents = {} => last.id = NoId
       /\ ActiveAgents # {} =>
             /\ last.id \in ActiveAgents
             /\ \A j \in ActiveAgents :
                   /\ AgentScore(agentTable[last.id], last.criteria)
                         >= AgentScore(agentTable[j], last.criteria)
                   /\ AgentScore(agentTable[last.id], last.criteria)
                         = AgentScore(agentTable[j], last.criteria)
                      => InputOrder(last.id) <= InputOrder(j)
       /\ \A i \in ActiveAgents :
             (/\ Cardinality(ActiveAgents) = 3
              /\ ListsChannel(i)
              /\ \A j \in ActiveAgents \ {i} :
                    /\ ~ListsChannel(j)
                    /\ agentTable[j].type = agentTable[i].type
                    /\ agentTable[j].assignToCampaigns
                          = agentTable[i].assignToCampaigns
                    /\ agentTable[j].voiceProvider = agentTable[i].voiceProvider)
             => last.id = i

\* two agents have the highest score, above a third, and the one returned
\* has the greater id but came first
C20_Witness ==
    /\ Selected
    /\ Cardinality(ActiveAgents) = 3
    /\ \E j \in ActiveAgents :
          /\ j < last.id
          /\ AgentScore(agentTable[j], last.criteria)
                = AgentScore(agentTable[last.id], last.criteria)
          /\ InputOrder(last.id) < InputOrder(j)
    /\ \E j \in ActiveAgents :
          AgentScore(agentTable[j], last.criteria)
             < AgentScore(agentTable[last.id], last.criteria)

----------------------------------------------------------------------------
(* decideActions: context-builder.ts 345-497.  A response is the sequence  *)
(* of the phrases it is made of; includes() asks for a phrase.             *)

Urls == {"https://a", "https://b"}

\* the patterns a phrase of a response contains
Phrases(word) ==
    IF word \in Urls THEN {"http"}
    ELSE IF word = "product: x" THEN {"product"} ELSE {word}

includes(response, pattern) ==
    \E k \in DOMAIN response : pattern \in Phrases(response[k])

\* the patterns of detectIntent that the phrases tried can match
intentPatterns ==
    [link |-> {"send link"}, document |-> {"file"}, quote |-> {"quote"},
     meeting |-> {"meeting"}, escalate |-> {"transfer"},
     product |-> {"product", "stock"}, important |-> {"important"}]

detectIntent(response) ==
    {intent \in DOMAIN intentPatterns :
        \E pattern \in intentPatterns[intent] : includes(response, pattern)}

\* String.prototype.match with /(https?:\/\/[^\s]+)/g: the URLs in text order
extractUrls(response) == SelectSeq(response, LAMBDA w : w \in Urls)

shouldEscalate(response, contact) ==
    \/ includes(response, "transfer")
    \/ "vip" \in contact.tags /\ contact.lifetimeValue > 100000

\* the tags detected that the contact does not have yet
extractTags(response, contact) ==
    ((IF includes(response, "interested") THEN {"interested"} ELSE {})
     \cup (IF includes(response, "quote") THEN {"quote-requested"} ELSE {}))
       \ contact.tags

\* whether extractProductQuery finds "product: <query>"
extractProductQuery(response) ==
    \E k \in DOMAIN response : response[k] = "product: x"

Action(type, priority, url) == [type |-> type, priority |-> priority, url |-> url]

\* the actions pushed for the links: one for each URL, in text order
LinkActions(urls) == [k \in DOMAIN urls |-> Action("send-link", 5, urls[k])]

When(condition, action) == IF condition THEN << action >> ELSE << >>

\* the actions in the order in which decideActions pushes them
EmittedActions(response, allowedActions, contact) ==
    (IF /\ "send-link" \in allowedActions
        /\ ("link" \in detectIntent(response) \/ includes(response, "http"))
     THEN LinkActions(extractUrls(response)) ELSE << >>)
    \o When(/\ "send-document" \in allowedActions
            /\ detectIntent(response) \cap {"document", "file"} # {},
            Action("send-document", 7, "none"))
    \o When(/\ "create-quote" \in allowedActions
            /\ detectIntent(response) \cap {"quote", "price", "cost"} # {},
            Action("create-quote", 9, "none"))
    \o When(/\ "schedule-meeting" \in allowedActions
            /\ detectIntent(response) \cap {"meeting", "appointment", "call"} # {},
            Action("schedule-meeting", 8, "none"))
    \o When(/\ "transfer-to-human" \in allowedActions
            /\ shouldEscalate(response, contact),
            Action("transfer-to-human", 10, "none"))
    \o When(/\ "create-note" \in allowedActions
            /\ "important" \in detectIntent(response),
            Action("create-note", 3, "none"))
    \o When(/\ "update-tags" \in allowedActions
            /\ extractTags(response, contact) # {},
            Action("update-tags", 2, "none"))
    \o When(/\ "search-product" \in allowedActions
            /\ detectIntent(response) \cap {"product", "stock"} # {}
            /\ extractProductQuery(response),
            Action("search-product", 6, "none"))

RECURSIVE InsertByPriority(_, _)
\* Array.prototype.sort is stable: an element goes after its equals
InsertByPriority(sorted, a) ==
    IF sorted = << >> THEN << a >>
    ELSE IF Head(sorted).priority >= a.priority
         THEN << Head(sorted) >> \o InsertByPriority(Tail(sorted), a)
         ELSE << a >> \o sorted

RECURSIVE SortByPriority(_)
SortByPriority(actions) ==
    IF actions = << >> THEN << >>
    ELSE InsertByPriority(SortByPriority(SubSeq(actions, 1, Len(actions) - 1)),
                          actions[Len(actions)])

\* the actions as pushed, without the final sort
decideActionsUnsorted(response, allowedActions, contact) ==
    EmittedActions(response, allowedActions, contact)

decideActions(response, allowedActions, contact) ==
    SortByPriority(EmittedActions(response, allowedActions, contact))

DecideWords == 3         \* phrases of a response

Vocabulary ==
    Urls \cup {"send link", "file", "quote", "meeting", "transfer",
               "important", "interested", "product: x", "stock"}

\* every response of at most DecideWords phrases
Responses ==
    UNION {[1..n -> Vocabulary] : n \in 0..DecideWords}

ActionTypes ==
    {"send-link", "send-document", "create-quote", "schedule-meeting",
     "transfer-to-human", "create-note", "update-tags", "search-product"}

\* the allowedActions tried
AllowedActions ==
    {ActionTypes, {}, {"send-link", "create-note", "update-tags"},
     {"send-link", "transfer-to-human", "search-product"}}

\* the contacts of the contexts tried: a new one and a VIP
DecideContacts ==
    {[tags |-> {}, lifetimeValue |-> 0],
     [tags |-> {"vip", "interested"}, lifetimeValue |-> 200000]}

\* one decision; the record of it: the response, the agent's allowedActions,
\* the contact of the context, and the actions returned
DecideActions(response, allowedActions, contact) ==
    /\ last.op = "none"
    /\ last' = [op |-> "decideActions", response |-> response,
                allowedActions |-> allowedActions, contact |-> contact,
                actions |-> decideActions(response, allowedActions, contact)]
    /\ UNCHANGED << contactTable, contactSourceTable, conversationTable,
                    agentAssignmentTable, formSubmissionTable, contactNoteTable,
                    contactAgreementTable, voiceCallTable,
                    conversationMessageTable, formTable, agentTable, now,
                    requests >>

NextDecide ==
    \E r \in Responses, a \in AllowedActions, c \in DecideContacts :
       DecideActions(r, a, c)

SpecDecide == Init /\ [][NextDecide]_vars

Decided == last.op = "decideActions"

\* the URLs of the links returned, in the order returned
RECURSIVE LinksOf(_)
LinksOf(actions) ==
    IF actions = << >> THEN << >>
    ELSE (IF Head(actions).type = "send-link"
          THEN << Head(actions).url >> ELSE << >>) \o LinksOf(Tail(actions))

\* C21: every action decided has a type the agent allows; priorities do not
\* increase along the list; the only actions of equal priority, the links,
\* are adjacent and in the order of their URLs in the response; and a
\* transfer to a human, if any, is first
C21_AllowedAndByPriority ==
    Decided =>
       /\ \A i \in DOMAIN last.actions :
             last.actions[i].type \in last.allowedActions
       /\ \A i, j \in DOMAIN last.actions :
             i < j =>
                /\ last.actions[i].priority >= last.actions[j].priority
                /\ last.actions[i].priority = last.actions[j].priority
                   => /\ last.actions[i].type = "send-link"
                      /\ last.actions[j].type = "send-link"
       /\ LinksOf(last.actions) \in
             {<< >>, SelectSeq(last.response, LAMBDA w : w \in Urls)}
       /\ \A i \in DOMAIN last.actions :
             last.actions[i].type = "transfer-to-human" =>
                i = 1 /\ last.actions[i].priority = 10

\* two links to different URLs were pushed before a transfer to a human,
\* which is returned first
C21_Witness ==
    /\ Decided
    /\ Len(last.actions) = 3
    /\ last.actions[1].type = "transfer-to-human"
    /\ last.actions[2].type = "send-link"
    /\ last.actions[3].type = "send-link"
    /\ last.actions[2].url # last.actions[3].url

----------------------------------------------------------------------------
(* normalizePhoneNumber on its own: merger.ts 30-43 *)

PhoneDigits == 10        \* digits taken from a base number

\* the numbers the phones are cut from
PhoneBases ==
    { PhoneLocal \o << "8", "9" >>,
      << "1", "5", "2" >> \o PhoneLocal,
      << "5", "2", "1", "1" >> \o PhoneLocal }

PhonePrefixes ==
    { << >>, << "1" >>, << "5", "2" >>, << "+", "1" >>, << "+", "5", "2" >>,
      << "(", "5", ")" >>, << "1", "1" >>, << "5", "2", "1" >> }

PhoneSeparators == { << >>, << "-" >>, << " ", "1" >>, << "5", "2" >> }

\* a prefix, a separator and the first digits of a base number
Phones ==
    { p \o m \o SubSeq(b, 1, n) :
         p \in PhonePrefixes, m \in PhoneSeparators, b \in PhoneBases,
         n \in 0..PhoneDigits }

\* one normalization; the record of it: the phone, its normal form, and the
\* normal form of the normal form
NormalizePhoneNumber(phone) ==
    /\ last.op = "none"
    /\ last' = [op |-> "normalizePhoneNumber", phone |-> phone,
                normalized |-> normalizePhoneNumber(phone),
                again |-> normalizePhoneNumber(normalizePhoneNumber(phone))]
    /\ UNCHANGED << contactTable, contactSourceTable, conversationTable,
                    agentAssignmentTable, formSubmissionTable, contactNoteTable,
                    contactAgreementTable, voiceCallTable,
                    conversationMessageTable, formTable, agentTable, now,
                    requests >>

NextPhone == \E phone \in Phones : NormalizePhoneNumber(phone)

SpecPhone == Init /\ [][NextPhone]_vars

Normalized == last.op = "normalizePhoneNumber"

DigitsOf(phone) == SelectSeq(phone, LAMBDA c : c \in Digits)

\* C22: normalizing a normal form changes nothing; a normal form has only
\* digits; eleven digits that start with 1 and twelve that start with 52
\* become their last ten digits
C22_NormalizeIdempotent ==
    Normalized =>
       /\ last.again = last.normalized
       /\ \A k \in DOMAIN last.normalized : last.normalized[k] \in Digits
       /\ (\/ Len(DigitsOf(last.phone)) = 11 /\ DigitsOf(last.phone)[1] = "1"
           \/ /\ Len(DigitsOf(last.phone)) = 12
              /\ SubSeq(DigitsOf(last.phone), 1, 2) = << "5", "2" >>)
          => last.normalized
                = SubSeq(DigitsOf(last.phone), Len(DigitsOf(last.phone)) - 9,
                         Len(DigitsOf(last.phone)))

\* a phone written with a sign, twelve digits that start with 52, of which
\* the ten that remain start with 1
C22_Witness ==
    /\ Normalized
    /\ Len(last.phone) > Len(DigitsOf(last.phone))
    /\ Len(DigitsOf(last.phone)) = 12
    /\ Len(last.normalized) = 10
    /\ last.normalized[1] = "1"

----------------------------------------------------------------------------
(* calculateSimilarity on its own: merger.ts 49-98 *)

SimilarityLen == 2       \* code units of a string compared

SimilarityUnits == {"a", "A", "b", "U+0130"}

SimilarityStrings ==
    UNION {[1..n -> SimilarityUnits] : n \in 0..SimilarityLen}

\* one comparison; the record of it: the strings, their similarity in both
\* directions, the similarity of the first with itself, and the distance
\* the similarity is computed from
CalculateSimilarity(str1, str2) ==
    /\ last.op = "none"
    /\ last' = [op |-> "calculateSimilarity", str1 |-> str1, str2 |-> str2,
                similarity |-> calculateSimilarity(str1, str2),
                reverse |-> calculateSimilarity(str2, str1),
                self |-> calculateSimilarity(str1, str1),
                distance |-> levenshteinDistance(toLowerCase(str1),
                                                 toLowerCase(str2))]
    /\ UNCHANGED << contactTable, contactSourceTable, conversationTable,
                    agentAssignmentTable, formSubmissionTable, contactNoteTable,
                    contactAgreementTable, voiceCallTable,
                    conversationMessageTable, formTable, agentTable, now,
                    requests >>

NextSimilarity ==
    \E a \in SimilarityStrings, b \in SimilarityStrings :
       CalculateSimilarity(a, b)

SpecSimilarity == Init /\ [][NextSimilarity]_vars

Compared == last.op = "calculateSimilarity"

\* the edit distance by its definition: the fewest insertions, deletions and
\* substitutions, each of cost 1
RECURSIVE EditDistance(_, _)
EditDistance(a, b) ==
    IF a = << >> THEN Len(b)
    ELSE IF b = << >> THEN Len(a)
    ELSE Min(Min(EditDistance(Tail(a), b) + 1, EditDistance(a, Tail(b)) + 1),
             EditDistance(Tail(a), Tail(b))
                + (IF Head(a) = Head(b) THEN 0 ELSE 1))

\* C23: the similarity is the same in both directions, is 1 for a string
\* and itself and for two empty strings, lies between 0 and 1, and comes
\* from the edit distance of the lowercased strings
C23_SimilarityProperties ==
    Compared =>
       /\ last.similarity = last.reverse
       /\ last.self = SimScale
       /\ last.str1 = << >> /\ last.str2 = << >> => last.similarity = SimScale
       /\ last.similarity >= 0 /\ last.similarity <= SimScale
       /\ last.distance
             = EditDistance(toLowerCase(last.str1), toLowerCase(last.str2))

----------------------------------------------------------------------------
(* The operations that bind an agent to a conversation:                    *)
(* organization-agent-router.ts 101-163 and 210-242, part_002 146-199,     *)
(* submission.ts 195-222                                                   *)

BindCalls == 2           \* calls in a behaviour

BindClock ==
    /\ now < BindCalls
    /\ now' = now + 1

\* the outcome of the update procedure of the agent router when it sets the
\* active flag
update(agents, organizationId, id, active) ==
    IF id \in DOMAIN agents /\ agents[id].organizationId = organizationId
    THEN [agents |-> [agents EXCEPT ![id].active = active], ok |-> TRUE,
          error |-> "none"]
    ELSE [agents |-> agents, ok |-> FALSE, error |-> "NOT_FOUND"]

\* the outcome of the assign procedure of the agent router
assign(db, agents, organizationId, conversationId, agentId, contactId, t) ==
    IF ~(agentId \in DOMAIN agents /\ agents[agentId].organizationId = organizationId)
    THEN [db |-> db, ok |-> FALSE, error |-> "NOT_FOUND"]
    ELSE IF ~agents[agentId].active
    THEN [db |-> db, ok |-> FALSE, error |-> "BAD_REQUEST"]
    ELSE [db |-> assignAgentToConversation(db, db.conversation, agents,
                     conversationId, agentId, contactId, t).db,
          ok |-> assignAgentToConversation(db, db.conversation, agents,
                     conversationId, agentId, contactId, t).ok,
          error |-> "none"]

UpdateAgent(organizationId, id, active) ==
    /\ BindClock
    /\ \E r \in {update(agentTable, organizationId, id, active)} :
        /\ agentTable' = r.agents
        /\ last' = [op |-> "update", ok |-> r.ok, error |-> r.error]
    /\ UNCHANGED << contactTable, contactSourceTable, conversationTable,
                    agentAssignmentTable, formSubmissionTable, contactNoteTable,
                    contactAgreementTable, voiceCallTable,
                    conversationMessageTable, formTable, requests >>

Assign(organizationId, conversationId, agentId, contactId) ==
    /\ BindClock
    /\ \E r \in {assign(DB, agentTable, organizationId, conversationId,
                        agentId, contactId, now)} :
        /\ SetDB(r.db)
        /\ last' = [op |-> "assign", ok |-> r.ok, error |-> r.error]
    /\ UNCHANGED << agentTable, requests >>

BindProcessMessage(conversationId, organizationId) ==
    /\ BindClock
    /\ \E r \in {processMessage(DB, agentTable,
                    [conversationId |-> conversationId,
                     organizationId |-> organizationId, contactId |-> 1],
                    << >>, {}, "none")} :
        /\ SetDB(r.db)
        /\ last' = [op |-> "processMessage", ok |-> r.ok, error |-> "none"]
    /\ UNCHANGED << agentTable, requests >>

BindProcessFormSubmission(formId, data, visible) ==
    /\ BindClock
    /\ \E r \in {processFormSubmission(DB, agentTable, RouterHeap, formId,
                                       data, visible, now)} :
        /\ SetDB(r.db)
        /\ last' = [op |-> "processFormSubmission", ok |-> r.ok,
                    error |-> "none"]
    /\ UNCHANGED << agentTable, requests >>

NextBind ==
    \/ \E o \in Organizations, a \in DOMAIN agentTable, active \in BOOLEAN :
          UpdateAgent(o, a, active)
    \/ \E o \in Organizations, c \in DOMAIN conversationTable,
          a \in DOMAIN agentTable, k \in DOMAIN contactTable :
          Assign(o, c, a, k)
    \/ \E c \in DOMAIN conversationTable, o \in Organizations :
          BindProcessMessage(c, o)
    \/ \E f \in DOMAIN formTable, d \in FormSubmitted, v \in BOOLEAN :
          BindProcessFormSubmission(f, d, v)

SpecBind == InitEngine /\ [][NextBind]_vars

\* C24: an assignment created by a step names an agent that is active when
\* the step is taken, and a rejected assign creates none
C24_InactiveAgentNeverBound ==
    [][/\ \A k \in DOMAIN agentAssignmentTable' :
             k > Len(agentAssignmentTable)
                => agentTable[agentAssignmentTable'[k].agentId].active
       /\ last'.op = "assign" /\ ~last'.ok
             => agentAssignmentTable' = agentAssignmentTable]_vars

----------------------------------------------------------------------------
(* Runs of processMessage that interleave in getOrAssignAgent:             *)
(* part_002 44-141 and 146-199.  A run is at "check" before the query for  *)
(* an open assignment, at "insert" once it found none and selected an      *)
(* agent, and at "respond" once it holds an assignment.                    *)

RaceRuns == 3            \* runs of processMessage in a behaviour

\* an insert that a unique index on the open assignment of a conversation
\* would turn away
InsertAssignmentUnlessOpen(assignments, conversationId, agentId, contactId) ==
    IF FirstOpenAssignment(assignments, conversationId) # NoId THEN assignments
    ELSE Append(assignments, NewAssignment(conversationId, agentId, contactId))

\* part_002 186-193: INSERT INTO agent_assignment; the table has no unique
\* index (tables.ts 1180-1185)
InsertAssignment(assignments, conversationId, agentId, contactId) ==
    Append(assignments, NewAssignment(conversationId, agentId, contactId))

\* the agent selected for a conversation (part_002 176-180)
SelectedAgent(conversationId) ==
    selectBestAgent(agentTable, SeqOfSet(DOMAIN agentTable),
                    conversationTable[conversationId].organizationId,
                    [channel |-> conversationTable[conversationId].channel,
                     contactId |-> conversationTable[conversationId].contactId,
                     intent |-> "none", campaign |-> "none"])

RaceArrive(conversationId) ==
    /\ Len(requests) < RaceRuns
    /\ requests' = Append(requests,
                          [kind |-> "processMessage", pc |-> "check",
                           conversationId |-> conversationId,
                           messageCount |-> 0])
    /\ last' = Stepped("processMessage", conversationId, FALSE, "none")
    /\ UNCHANGED << contactTable, contactSourceTable, conversationTable,
                    agentAssignmentTable, formSubmissionTable, contactNoteTable,
                    contactAgreementTable, voiceCallTable,
                    conversationMessageTable, formTable, agentTable, now >>

\* part_002 150-183: the open assignment is looked for; without one the
\* conversation is read and an agent selected, and the run ends when there
\* is no conversation or no agent
RaceCheck(i) ==
    /\ requests[i].pc = "check"
    /\ LET c == requests[i].conversationId
       IN  requests' =
              [requests EXCEPT ![i].pc =
                  IF FirstOpenAssignment(agentAssignmentTable, c) # NoId
                  THEN "respond"
                  ELSE IF c \notin DOMAIN conversationTable THEN "done"
                  ELSE IF SelectedAgent(c) = NoId THEN "done"
                  ELSE "insert"]
    /\ last' = Stepped("getOrAssignAgent", requests[i].conversationId, FALSE,
                       "none")
    /\ UNCHANGED << contactTable, contactSourceTable, conversationTable,
                    agentAssignmentTable, formSubmissionTable, contactNoteTable,
                    contactAgreementTable, voiceCallTable,
                    conversationMessageTable, formTable, agentTable, now >>

\* part_002 185-193: the assignment is inserted
RaceInsert(i) ==
    /\ requests[i].pc = "insert"
    /\ agentAssignmentTable' =
          InsertAssignment(agentAssignmentTable, requests[i].conversationId,
                           SelectedAgent(requests[i].conversationId),
                           conversationTable[requests[i].conversationId].contactId)
    /\ requests' = [requests EXCEPT ![i].pc = "respond"]
    /\ last' = Stepped("getOrAssignAgent", requests[i].conversationId, FALSE,
                       "none")
    /\ UNCHANGED << contactTable, contactSourceTable, conversationTable,
                    formSubmissionTable, contactNoteTable,
                    contactAgreementTable, voiceCallTable,
                    conversationMessageTable, formTable, agentTable, now >>

\* part_002 55-136: the rest of the run, with the assignment it holds
RaceRespond(i) ==
    /\ requests[i].pc = "respond"
    /\ \E r \in {processMessage(DB, agentTable,
                    [conversationId |-> requests[i].conversationId,
                     organizationId |->
                         conversationTable[requests[i].conversationId].organizationId,
                     contactId |->
                         conversationTable[requests[i].conversationId].contactId],
                    << >>, {}, "none")} :
          /\ SetDB(r.db)
          /\ last' = Stepped("processMessage", requests[i].conversationId,
                             r.response, r.charged)
    /\ requests' = [requests EXCEPT ![i].pc = "done"]
    /\ UNCHANGED << agentTable, now >>

NextRace ==
    \/ \E c \in 1..2 : RaceArrive(c)
    \/ \E i \in DOMAIN requests : RaceCheck(i)
    \/ \E i \in DOMAIN requests : RaceInsert(i)
    \/ \E i \in DOMAIN requests : RaceRespond(i)

SpecRace == InitConversation /\ [][NextRace]_vars

\* C25: nothing stops the insert of a run that found no open assignment:
\* whatever the other runs did meanwhile, it adds an open assignment to the
\* conversation, so that two runs that both found none leave two
C25_RunsBothInsert ==
    [][\A i \in DOMAIN requests :
          requests[i].pc = "insert" /\ requests'[i].pc = "respond"
             => Cardinality(OpenAssignments(agentAssignmentTable',
                                            requests[i].conversationId))
                   = Cardinality(OpenAssignments(agentAssignmentTable,
                                                 requests[i].conversationId)) + 1]_vars

\* two runs of the same conversation have inserted, and the conversation
\* has two open assignments
C25_Witness ==
    /\ \E i, j \in DOMAIN requests :
          /\ i # j
          /\ requests[i].conversationId = requests[j].conversationId
          /\ requests[i].pc \in {"respond", "done"}
          /\ requests[j].pc \in {"respond", "done"}
          /\ Cardinality(OpenAssignments(agentAssignmentTable,
                                         requests[i].conversationId)) = 2

----------------------------------------------------------------------------
(* autoMergeHighConfidenceDuplicates on its own: merger.ts 419-455 *)

\* the faults tried: none, a write of the transaction of one contact's
\* merge, and the heat recalculation after its commit
AutoFaults ==
    {NoFault} \cup [id : 1..DetectContacts, failAt : {5, MergeStatements + 1}]

\* one batch on each table; the record of it: the organization, the scan
\* order, the fault and the count returned
AutoMerge(organizationId, heap, fault) ==
    /\ last.op = "none"
    /\ \E r \in {autoMergeHighConfidenceDuplicates(DB, heap, organizationId,
                                                   fault, now)} :
        /\ SetDB(r.db)
        /\ last' = [op |-> "autoMergeHighConfidenceDuplicates",
                    org |-> organizationId, heap |-> heap, fault |-> fault,
                    count |-> r.mergeCount]
    /\ UNCHANGED << agentTable, now, requests >>

NextAuto ==
    \E o \in Organizations, h \in DetectHeaps, f \in AutoFaults :
       AutoMerge(o, h, f)

SpecAuto == InitDetect /\ [][NextAuto]_vars

AutoMerged == last'.op = "autoMergeHighConfidenceDuplicates"

\* the contacts the batch has merged
NewlyMerged ==
    {k \in DOMAIN contactTable :
        /\ contactTable[k].status = ContactStatus.active
        /\ contactTable'[k].status = ContactStatus.merged}

\* whether d is a candidate of confidence 0.95 or more for the contact p
HighConfidence(p, d) ==
    \E k \in DOMAIN detectDuplicateContacts(contactTable, last'.heap, last'.org,
                       contactTable[p], AutoMergeThreshold) :
       /\ detectDuplicateContacts(contactTable, last'.heap, last'.org,
              contactTable[p], AutoMergeThreshold)[k].id = d
       /\ detectDuplicateContacts(contactTable, last'.heap, last'.org,
              contactTable[p], AutoMergeThreshold)[k].confidence
             >= Conf(AutoMergeConfidence)

MergeFields(row) ==
    << row.email, row.phone, row.lifetimeValue, row.interactionCount >>

\* C26: a contact the batch merges was a candidate of confidence 0.95 or
\* more of the contact it is merged into; the count returned is the number
\* of duplicates merged, a contact not being a duplicate of itself; and the
\* contact whose merge fails keeps its data and receives nobody
C26_AutoMergeCountsAndSkips ==
    [][AutoMerged =>
          /\ \A d \in NewlyMerged :
                /\ contactTable'[d].mergedWithId \in DOMAIN contactTable
                /\ HighConfidence(contactTable'[d].mergedWithId, d)
          /\ last'.count
                = Cardinality({d \in NewlyMerged :
                                  contactTable'[d].mergedWithId # d})
          /\ \A p \in DOMAIN contactTable :
                p = last'.fault.id =>
                   /\ MergeFields(contactTable'[p]) = MergeFields(contactTable[p])
                   /\ \A d \in NewlyMerged : contactTable'[d].mergedWithId # p]_vars

\* whether two rows share an email, a normalized phone or a name
Share(a, b) ==
    \/ Truthy(a.email) /\ a.email = b.email
    \/ /\ Truthy(a.phone) /\ Truthy(b.phone)
       /\ normalizePhoneNumber(a.phone) = normalizePhoneNumber(b.phone)
    \/ /\ toLowerCase(a.firstName) = toLowerCase(b.firstName)
       /\ toLowerCase(a.lastName) = toLowerCase(b.lastName)

\* the active contacts of the organization the batch runs on
ActiveOfOrg ==
    {k \in DOMAIN contactTable :
        /\ contactTable[k].organizationId = last'.org
        /\ contactTable[k].status = ContactStatus.active}

\* C27: without a fault, the batch merges no contact into itself; where no
\* two active contacts of the organization share an email, a phone or a
\* name it returns 0 and changes no status; and where the organization has
\* two active contacts, which share an email, one of them is active after it
C27_AutoMergeKeepsSurvivor ==
    [][AutoMerged /\ last'.fault = NoFault =>
          /\ \A k \in DOMAIN contactTable' : contactTable'[k].mergedWithId # k
          /\ (\A a, b \in ActiveOfOrg :
                 a # b => ~Share(contactTable[a], contactTable[b]))
             => /\ last'.count = 0
                /\ \A k \in DOMAIN contactTable :
                      contactTable'[k].status = contactTable[k].status
          /\ \A a, b \in ActiveOfOrg :
                (/\ a # b /\ ActiveOfOrg = {a, b}
                 /\ Truthy(contactTable[a].email)
                 /\ contactTable[a].email = contactTable[b].email)
                => Cardinality({k \in {a, b} :
                       contactTable'[k].status = ContactStatus.active}) = 1]_vars

----------------------------------------------------------------------------
(* Calls of findOrCreateContact that interleave: merger.ts 496-602.  The   *)
(* transaction runs at the default isolation level: each statement sees    *)
(* what is committed when it runs.  A call is at "find" before its         *)
(* lookups, at "write" between the lookups and its writes, which commit     *)
(* together, and at "done" after the commit.                                *)

LookupRuns == 2          \* calls of findOrCreateContact in a behaviour

WithSource(data) ==
    [firstName |-> data.firstName, lastName |-> data.lastName,
     email |-> data.email, phone |-> data.phone,
     sourceType |-> "manual", sourceIdentifier |-> NoId]

\* whether a contact of the organization has the email
EmailKnown(table, organizationId, email) ==
    \E k \in DOMAIN table :
       table[k].organizationId = organizationId /\ table[k].email = email

\* a call starts; fresh records whether no contact had its email then
LookupArrive(organizationId, data) ==
    /\ Len(requests) < LookupRuns
    /\ requests' = Append(requests,
                          [kind |-> "findOrCreateContact", pc |-> "find",
                           org |-> organizationId, data |-> data,
                           fresh |-> ~EmailKnown(contactTable, organizationId,
                                                 data.email),
                           existing |-> NoId, id |-> NoId])
    /\ last' = [NoCall EXCEPT !.op = "findOrCreateContact",
                              !.org = organizationId, !.data = data]
    /\ UNCHANGED << contactTable, contactSourceTable, conversationTable,
                    agentAssignmentTable, formSubmissionTable, contactNoteTable,
                    contactAgreementTable, voiceCallTable,
                    conversationMessageTable, formTable, agentTable, now >>

\* merger.ts 498-518: the lookups by email and by phone
LookupFind(i, heap) ==
    /\ requests[i].pc = "find"
    /\ requests' = [requests EXCEPT
                       ![i].pc = "write",
                       ![i].existing = FindExisting(contactTable, heap,
                                           requests[i].org, requests[i].data)]
    /\ last' = [NoCall EXCEPT !.op = "findOrCreateContact",
                              !.org = requests[i].org,
                              !.data = requests[i].data]
    /\ UNCHANGED << contactTable, contactSourceTable, conversationTable,
                    agentAssignmentTable, formSubmissionTable, contactNoteTable,
                    contactAgreementTable, voiceCallTable,
                    conversationMessageTable, formTable, agentTable, now >>

\* merger.ts 520-601: the contact found is touched and its source upserted,
\* or a contact and its source are inserted; then the commit
LookupWrite(i) ==
    /\ requests[i].pc = "write"
    /\ LET existing == requests[i].existing
           data == WithSource(requests[i].data)
           existingSource == FindSource(contactSourceTable, existing, data)
       IN  IF existing # NoId
           THEN /\ contactTable' =
                      [contactTable EXCEPT
                          ![existing].lastInteractionAt = now,
                          ![existing].interactionCount = @ + 1]
                /\ contactSourceTable' =
                      IF existingSource = NoId
                      THEN Append(contactSourceTable, NewSource(existing, data))
                      ELSE [contactSourceTable EXCEPT
                               ![existingSource].interactionCount = @ + 1]
                /\ requests' = [requests EXCEPT ![i].pc = "done",
                                                ![i].id = existing]
           ELSE /\ contactTable' =
                      Append(contactTable,
                             NewContact(requests[i].org, data, now))
                /\ contactSourceTable' =
                      Append(contactSourceTable,
                             NewSource(Len(contactTable) + 1, data))
                /\ requests' = [requests EXCEPT
                                   ![i].pc = "done",
                                   ![i].id = Len(contactTable) + 1]
    /\ last' = [NoCall EXCEPT !.op = "findOrCreateContact",
                              !.id = requests'[i].id,
                              !.org = requests[i].org,
                              !.data = requests[i].data]
    /\ UNCHANGED << conversationTable, agentAssignmentTable,
                    formSubmissionTable, contactNoteTable,
                    contactAgreementTable, voiceCallTable,
                    conversationMessageTable, formTable, agentTable, now >>

NextLookup ==
    \/ \E c \in Lookups : LookupArrive(c[1], c[2])
    \/ \E i \in DOMAIN requests, h \in Heaps : LookupFind(i, h)
    \/ \E i \in DOMAIN requests : LookupWrite(i)

SpecLookup == Init /\ [][NextLookup]_vars

\* C28: when two calls with the same email for the same organization, both
\* started while no contact had that email, have returned, at most one
\* active contact of the organization has the email and both returned the
\* same id
C28_ConcurrentLookupsAgree ==
    \A i, j \in DOMAIN requests :
       (/\ i # j
        /\ requests[i].pc = "done" /\ requests[j].pc = "done"
        /\ requests[i].fresh /\ requests[j].fresh
        /\ requests[i].org = requests[j].org
        /\ Truthy(requests[i].data.email)
        /\ requests[i].data.email = requests[j].data.email)
       => /\ requests[i].id = requests[j].id
          /\ Cardinality({k \in DOMAIN contactTable :
                 /\ contactTable[k].organizationId = requests[i].org
                 /\ contactTable[k].email = requests[i].data.email
                 /\ contactTable[k].status = ContactStatus.active}) <= 1

----------------------------------------------------------------------------
(* processFormSubmission with a statement of its transaction that fails:   *)
(* submission.ts 106-222                                                   *)

\* the statements of tx made to fail: the insert of the submission (167),
\* the update of the form counter (188) and the insert of the conversation
\* (200)
SubmissionFaults == {"submission", "counter", "conversation"}

\* the store when steps 4 and 5 are over: findOrCreateContact and
\* mergeContacts have committed through the handle db
ResolvedAndMerged(db, heap, formId, data, t) ==
    LET found == findOrCreateContact(db, heap, db.form[formId].organizationId,
                     [firstName |-> data.firstName, lastName |-> data.lastName,
                      email |-> data.email, phone |-> data.phone,
                      sourceType |-> "form", sourceIdentifier |-> formId], t)
        duplicateIds == CandidateIds(detectDuplicateContacts(found.db.contact,
                            heap, db.form[formId].organizationId, data,
                            FormThreshold)) \ {found.id}
    IN  IF duplicateIds = {} THEN found.db
        ELSE mergeContacts(found.db, heap, found.id, duplicateIds, 0, t).db

\* the outcome when the statement fault of tx throws: tx is rolled back,
\* which undoes what was written through tx
processFormSubmissionFailing(db, agents, heap, formId, data, fault, t) ==
    IF \/ formId \notin DOMAIN db.form
       \/ ~db.form[formId].active
       \/ ~validateFormSubmission(data, db.form[formId].requiredFields)
       \/ ~Truthy(data.firstName)
    THEN processFormSubmission(db, agents, heap, formId, data, TRUE, t)
    ELSE IF fault = "conversation"
            /\ ~(/\ db.form[formId].postSubmitAction = "start_conversation"
                 /\ db.form[formId].assignToAgentId # NoId)
    THEN processFormSubmission(db, agents, heap, formId, data, TRUE, t)
    ELSE [db |-> ResolvedAndMerged(db, heap, formId, data, t), ok |-> FALSE,
          contactId |-> NoId]

SubmitClock ==
    /\ now < FormCalls
    /\ now' = now + 1

\* the record of a submission: the form, the data and the result
SubmitForm(formId, data, heap, visible) ==
    /\ SubmitClock
    /\ \E r \in {processFormSubmission(DB, agentTable, heap, formId, data,
                                       visible, now)} :
        /\ SetDB(r.db)
        /\ last' = [op |-> "processFormSubmission", ok |-> r.ok,
                    id |-> r.contactId, form |-> formId, data |-> data]
    /\ UNCHANGED << agentTable, requests >>

SubmitFormFailing(formId, data, heap, fault) ==
    /\ SubmitClock
    /\ \E r \in {processFormSubmissionFailing(DB, agentTable, heap, formId,
                                              data, fault, now)} :
        /\ SetDB(r.db)
        /\ last' = [op |-> "processFormSubmission", ok |-> r.ok,
                    id |-> r.contactId, form |-> formId, data |-> data]
    /\ UNCHANGED << agentTable, requests >>

NextSubmit ==
    \/ \E f \in DOMAIN formTable, d \in FormSubmitted, h \in Heaps,
          v \in BOOLEAN :
          SubmitForm(f, d, h, v)
    \/ \E f \in DOMAIN formTable, d \in FormSubmitted, h \in Heaps,
          fault \in SubmissionFaults :
          SubmitFormFailing(f, d, h, fault)

SpecSubmit == Init /\ [][NextSubmit]_vars

\* C29: a submission that passes validation and then fails leaves the
\* contacts, their sources, the submissions, the form counters, the
\* conversations and the assignments as they were
C29_SubmissionAllOrNothing ==
    [][(/\ last'.op = "processFormSubmission"
        /\ ~last'.ok
        /\ formTable[last'.form].active
        /\ validateFormSubmission(last'.data,
                                  formTable[last'.form].requiredFields)
        /\ Truthy(last'.data.firstName))
       => /\ contactTable' = contactTable
          /\ contactSourceTable' = contactSourceTable
          /\ formSubmissionTable' = formSubmissionTable
          /\ formTable' = formTable
          /\ conversationTable' = conversationTable
          /\ agentAssignmentTable' = agentAssignmentTable]_vars

----------------------------------------------------------------------------
(* findOrCreateContact after mergeContacts: merger.ts 498-565, 383-391     *)

MergedCalls == 4     \* calls in a behaviour
MergedContacts == 3  \* rows of contactTable

MergedIds == 1..MergedContacts

\* the scan orders tried: by ascending and by descending id
MergedHeaps == {SeqOfSet(MergedIds), Reverse(SeqOfSet(MergedIds))}

MergedClock ==
    /\ now < MergedCalls
    /\ now' = now + 1

MergedFindOrCreateContact(organizationId, data, heap) ==
    /\ MergedClock
    /\ \E r \in {findOrCreateContact(DB, heap, organizationId,
                     [firstName |-> data.firstName, lastName |-> data.lastName,
                      email |-> data.email, phone |-> data.phone,
                      sourceType |-> "manual", sourceIdentifier |-> NoId],
                     now + 1)} :
        /\ Len(r.db.contact) <= MergedContacts
        /\ SetDB(r.db)
        /\ last' = [NoCall EXCEPT !.op = "findOrCreateContact", !.id = r.id,
                                  !.count = IF r.created THEN 1 ELSE 0,
                                  !.org = organizationId, !.data = data]
    /\ UNCHANGED << agentTable, requests >>

MergedMergeContacts(primaryId, duplicateId, heap) ==
    /\ MergedClock
    /\ \E r \in {mergeContacts(DB, heap, primaryId, {duplicateId}, 0,
                               now + 1)} :
        /\ SetDB(r.db)
        /\ last' = [NoCall EXCEPT !.op = "mergeContacts", !.ok = r.ok,
                                  !.error = r.error, !.id = primaryId,
                                  !.ids = {duplicateId}]
    /\ UNCHANGED << agentTable, requests >>

NextMerged ==
    \/ \E c \in Lookups, h \in MergedHeaps :
          MergedFindOrCreateContact(c[1], c[2], h)
    \/ \E p \in MergedIds, d \in MergedIds, h \in MergedHeaps :
          MergedMergeContacts(p, d, h)

SpecMerged == Init /\ [][NextMerged]_vars

\* the source rows of a contact
SourcesOf(sources, contactId) ==
    {i \in DOMAIN sources : sources[i].contactId = contactId}

\* C30: a call of findOrCreateContact returns an active contact, and it
\* leaves every merged contact (its interactionCount and lastInteractionAt
\* included) and the source rows of every merged contact as they were
C30_MergedContactUntouched ==
    [][last'.op = "findOrCreateContact"
       => /\ last'.id \in DOMAIN contactTable'
          /\ contactTable'[last'.id].status = ContactStatus.active
          /\ \A d \in DOMAIN contactTable :
                contactTable[d].status = ContactStatus.merged
                => /\ contactTable'[d] = contactTable[d]
                   /\ SourcesOf(contactSourceTable', d)
                         = SourcesOf(contactSourceTable, d)
                   /\ \A i \in SourcesOf(contactSourceTable, d) :
                         contactSourceTable'[i] = contactSourceTable[i]]_vars

\* findOrCreateContact was called with the email or the phone of a contact
\* that mergeContacts had merged into another contact
C30_Witness ==
    /\ last.op = "findOrCreateContact"
    /\ \E d \in DOMAIN contactTable :
          /\ contactTable[d].status = ContactStatus.merged
          /\ contactTable[d].mergedWithId \notin {NoId, d}
          /\ contactTable[d].organizationId = last.org
          /\ \/ Truthy(last.data.email)
                /\ contactTable[d].email = last.data.email
             \/ Truthy(last.data.phone)
                /\ contactTable[d].phone = last.data.phone

====
